---- MODULE Spec2Model ----
(***************************************************************************)
(* Model of the aggregated-signals endpoint                                *)
(* (src/endpoints/aggregated_endpoint.py): AggregatedSignals.get and its   *)
(* two static helpers _calculate_consensus and _generate_summary, and the  *)
(* response model aggregated_model the result of get is marshalled with.   *)
(*                                                                         *)
(* Python values are modelled as tagged records [k |-> kind, v |-> value]: *)
(* a dict is a function from its keys to values, a list is a sequence.     *)
(* A Python dict keeps insertion order, so the sources map is modelled as  *)
(* the sequence of its items.  An operation that can raise is modelled by  *)
(* a result record with a "raised" flag.                                   *)
(***************************************************************************)
EXTENDS Integers, Sequences, FiniteSets, TLC

VARIABLES
    pc,         \* pc[r]: position of request r inside AggregatedSignals.get
    symbol,     \* symbol[r]: the path parameter of request r
    interval,   \* interval[r]: the parsed query parameter of request r
    sources,    \* sources[r]: the local dict 'sources', as its item sequence
    consensus,  \* consensus[r]: outcome of _calculate_consensus (Pending before)
    summary,    \* summary[r]: outcome of _generate_summary (Pending before)
    result,     \* result[r]: outcome of get (Pending before)
    response,   \* response[r]: the marshalled response (Pending before)
    calls       \* calls[r]: history of the adapter calls made for request r

vars == <<pc, symbol, interval, sources, consensus, summary, result, response, calls>>

Requests == DOMAIN pc

(***************************************************************************)
(* Python values                                                           *)
(***************************************************************************)
PyNone == [k |-> "none", v |-> 0]
PyStr(s) == [k |-> "str", v |-> s]
PyNum(n) == [k |-> "num", v |-> n]
PyList(q) == [k |-> "list", v |-> q]
PyDict(f) == [k |-> "dict", v |-> f]

EmptyDict == PyDict(<<>>)

\* bool(v): the truth value Python gives a value in 'if v:'
PyTruthy(val) ==
    CASE val.k = "none" -> FALSE
      [] val.k = "str"  -> val.v # ""
      [] val.k = "num"  -> val.v # 0
      [] val.k = "list" -> Len(val.v) > 0
      [] val.k = "dict" -> DOMAIN val.v # {}

\* The strings of the model that contain the given key as a substring.
\* Every string the model uses is short; only the key itself contains it.
PyContains(s, key) == s = key

\* 'key in val' raises TypeError when val is not a container
PyInRaises(key, val) == val.k \in {"none", "num"}

\* 'key in val' for a string key
PyIn(key, val) ==
    CASE val.k = "dict" -> key \in DOMAIN val.v
      [] val.k = "str"  -> PyContains(val.v, key)
      [] val.k = "list" -> \E i \in 1..Len(val.v) : val.v[i] = PyStr(key)
      [] OTHER          -> FALSE

\* val.get(key, default) of a dict
PyGet(val, key, default) ==
    IF key \in DOMAIN val.v THEN val.v[key] ELSE default

\* the string left as it is
PyUpper_Unchanged(s) == s

\* str.upper() on the strings of the model
PyUpper(s) ==
    CASE s = "buy"     -> "BUY"
      [] s = "Buy"     -> "BUY"
      [] s = "sell"    -> "SELL"
      [] s = "Sell"    -> "SELL"
      [] s = "neutral" -> "NEUTRAL"
      [] s = "Neutral" -> "NEUTRAL"
      [] s = "eurusd"  -> "EURUSD"
      [] s = "EurUsd"  -> "EURUSD"
      [] OTHER         -> s

\* str(v) / f"{v}" of a value
PyFormat(val) ==
    CASE val.k = "str"  -> val.v
      [] val.k = "num"  -> ToString(val.v)
      [] val.k = "none" -> "None"
      [] val.k = "list" -> "[...]"
      [] val.k = "dict" -> "{...}"

(***************************************************************************)
(* Outcome of a call: it returned a value or it raised an exception        *)
(***************************************************************************)
Pending == [status |-> "pending"]
Returned(val) == [status |-> "returned", value |-> val]
Raised(e) == [status |-> "raised", exc |-> e]

(***************************************************************************)
(* _calculate_consensus: the extraction loop                               *)
(***************************************************************************)
LOW == PyStr("LOW")
MEDIUM == PyStr("MEDIUM")
HIGH == PyStr("HIGH")

\* the pair (recommendation, confidence) at the end of one loop iteration
Extracted(rec, conf) == Returned([recommendation |-> rec, confidence |-> conf])

\* recommendation = None, confidence = 'LOW': the values set before the
\* provider-specific branches
NotExtracted == Extracted(PyNone, LOW)

\* a comparison that also holds at exactly one and a half times
GreaterThanOneAndHalf_NonStrict(a, b) == 2 * a >= 3 * b

\* buy > sell * 1.5 on integers; the product is exact in floating point
\* for the counts of the model, so the comparison is 2*buy > 3*sell
GreaterThanOneAndHalf(a, b) == 2 * a > 3 * b

\* the branch for source_name == 'tradingview'
ExtractTradingView(source_data) ==
    IF ~PyIn("summary", source_data) THEN NotExtracted
    ELSE LET s == source_data.v["summary"] IN
         IF PyInRaises("recommendation", s) THEN Raised("TypeError")
         ELSE IF ~PyIn("recommendation", s) THEN NotExtracted
         ELSE IF s.k # "dict" THEN Raised("TypeError")
         ELSE LET buy == PyGet(s, "buy_signals", PyNum(0))
                  sell == PyGet(s, "sell_signals", PyNum(0))
              IN  IF buy.k # "num" \/ sell.k # "num" THEN Raised("TypeError")
                  ELSE IF GreaterThanOneAndHalf(buy.v, sell.v)
                       THEN Extracted(s.v["recommendation"], HIGH)
                  ELSE IF GreaterThanOneAndHalf(sell.v, buy.v)
                       THEN Extracted(s.v["recommendation"], HIGH)
                  ELSE Extracted(s.v["recommendation"], MEDIUM)

\* a missing 'recommendation' key read as NEUTRAL
ExtractPriceSeries_Default(source_data) ==
    IF ~PyIn("signals", source_data) THEN NotExtracted
    ELSE LET s == source_data.v["signals"] IN
         IF s.k # "dict" THEN Raised("AttributeError")
         ELSE Extracted(PyGet(s, "recommendation", PyStr("NEUTRAL")),
                        PyGet(s, "confidence", LOW))

\* a missing 'confidence' key read as MEDIUM
ExtractPriceSeries_DefaultMedium(source_data) ==
    IF ~PyIn("signals", source_data) THEN NotExtracted
    ELSE LET s == source_data.v["signals"] IN
         IF PyInRaises("recommendation", s) THEN Raised("TypeError")
         ELSE IF ~PyIn("recommendation", s) THEN NotExtracted
         ELSE IF s.k # "dict" THEN Raised("TypeError")
         ELSE Extracted(s.v["recommendation"], PyGet(s, "confidence", MEDIUM))

\* the branches for source_name == 'alphavantage' and 'twelvedata'
ExtractPriceSeries(source_data) ==
    IF ~PyIn("signals", source_data) THEN NotExtracted
    ELSE LET s == source_data.v["signals"] IN
         IF PyInRaises("recommendation", s) THEN Raised("TypeError")
         ELSE IF ~PyIn("recommendation", s) THEN NotExtracted
         ELSE IF s.k # "dict" THEN Raised("TypeError")
         ELSE Extracted(s.v["recommendation"], PyGet(s, "confidence", LOW))

\* the last entry read instead of the first
ExtractFirstTick_Last(signals_list) ==
    CASE signals_list.k = "num"  -> Raised("TypeError")
      [] signals_list.k = "dict" -> Raised("KeyError")
      [] signals_list.k = "str"  -> Raised("AttributeError")
      [] signals_list.k = "list" ->
            LET first == signals_list.v[Len(signals_list.v)] IN
            IF first.k # "dict" THEN Raised("AttributeError")
            ELSE Extracted(PyGet(first, "recommendation", PyStr("NEUTRAL")),
                           PyGet(first, "confidence", LOW))

\* signals_list[0].get(...) for a truthy signals_list
ExtractFirstTick(signals_list) ==
    CASE signals_list.k = "num"  -> Raised("TypeError")
      [] signals_list.k = "dict" -> Raised("KeyError")
      [] signals_list.k = "str"  -> Raised("AttributeError")
      [] signals_list.k = "list" ->
            LET first == signals_list.v[1] IN
            IF first.k # "dict" THEN Raised("AttributeError")
            ELSE Extracted(PyGet(first, "recommendation", PyStr("NEUTRAL")),
                           PyGet(first, "confidence", LOW))

\* an empty tick list read as the signal NEUTRAL of confidence LOW
ExtractTrueFX_EmptyDefault(source_data) ==
    IF ~PyIn("signals", source_data) THEN NotExtracted
    ELSE LET s == source_data.v["signals"] IN
         IF PyInRaises("signals", s) THEN Raised("TypeError")
         ELSE IF ~PyIn("signals", s) THEN NotExtracted
         ELSE IF s.k # "dict" THEN Raised("AttributeError")
         ELSE LET signals_list == PyGet(s, "signals", PyList(<<>>)) IN
              IF ~PyTruthy(signals_list) THEN Extracted(PyStr("NEUTRAL"), LOW)
              ELSE ExtractFirstTick(signals_list)

\* the branch for source_name == 'truefx'
ExtractTrueFX(source_data) ==
    IF ~PyIn("signals", source_data) THEN NotExtracted
    ELSE LET s == source_data.v["signals"] IN
         IF PyInRaises("signals", s) THEN Raised("TypeError")
         ELSE IF ~PyIn("signals", s) THEN NotExtracted
         ELSE IF s.k # "dict" THEN Raised("AttributeError")
         ELSE LET signals_list == PyGet(s, "signals", PyList(<<>>)) IN
              IF ~PyTruthy(signals_list) THEN NotExtracted
              ELSE ExtractFirstTick(signals_list)

\* one iteration of 'for source_name, source_data in sources.items()' up to
\* the test 'if recommendation:'
ExtractSource(source_name, source_data) ==
    IF PyIn("error", source_data) THEN NotExtracted
    ELSE CASE source_name = "tradingview"  -> ExtractTradingView(source_data)
           [] source_name = "alphavantage" -> ExtractPriceSeries(source_data)
           [] source_name = "twelvedata"   -> ExtractPriceSeries(source_data)
           [] source_name = "truefx"       -> ExtractTrueFX(source_data)
           [] OTHER                        -> NotExtracted

\* a loop that stops at the first entry with an error marker
RECURSIVE ExtractLoop_BreakOnError(_, _, _)
ExtractLoop_BreakOnError(items, i, acc) ==
    IF i > Len(items) THEN Returned(acc)
    ELSE IF PyIn("error", items[i].data) THEN Returned(acc)
    ELSE LET e == ExtractSource(items[i].name, items[i].data) IN
         IF e.status = "raised" THEN e
         ELSE IF ~PyTruthy(e.value.recommendation)
              THEN ExtractLoop_BreakOnError(items, i + 1, acc)
         ELSE IF e.value.recommendation.k # "str" THEN Raised("AttributeError")
         ELSE ExtractLoop_BreakOnError(items, i + 1,
                 [recommendations |-> Append(acc.recommendations,
                                             PyUpper(e.value.recommendation.v)),
                  confidences |-> Append(acc.confidences, e.value.confidence)])

\* the lists 'recommendations' and 'confidences' after the items from
\* position i on have been visited, starting from the lists in acc
RECURSIVE ExtractLoop(_, _, _)
ExtractLoop(items, i, acc) ==
    IF i > Len(items) THEN Returned(acc)
    ELSE LET e == ExtractSource(items[i].name, items[i].data) IN
         IF e.status = "raised" THEN e
         ELSE IF ~PyTruthy(e.value.recommendation) THEN ExtractLoop(items, i + 1, acc)
         ELSE IF e.value.recommendation.k # "str" THEN Raised("AttributeError")
         ELSE ExtractLoop(items, i + 1,
                 [recommendations |-> Append(acc.recommendations,
                                             PyUpper(e.value.recommendation.v)),
                  confidences |-> Append(acc.confidences, e.value.confidence)])

(***************************************************************************)
(* _calculate_consensus: votes, average confidence, agreement level        *)
(***************************************************************************)
\* list.count(x)
Count(list, x) == Cardinality({i \in 1..Len(list) : list[i] = x})

\* BUY wins a tie for the lead
OverallRecommendation_NonStrict(buy_votes, sell_votes, neutral_votes) ==
    IF buy_votes >= sell_votes /\ buy_votes >= neutral_votes THEN "BUY"
    ELSE IF sell_votes > buy_votes /\ sell_votes > neutral_votes THEN "SELL"
    ELSE "NEUTRAL"

\* the if/elif/else that determines overall_recommendation
OverallRecommendation(buy_votes, sell_votes, neutral_votes) ==
    IF buy_votes > sell_votes /\ buy_votes > neutral_votes THEN "BUY"
    ELSE IF sell_votes > buy_votes /\ sell_votes > neutral_votes THEN "SELL"
    ELSE "NEUTRAL"

\* a weight that ignores the case of the confidence string
ConfidenceWeight_IgnoreCase(c) ==
    IF c \in {LOW, PyStr("low"), PyStr("Low")} THEN 1
    ELSE IF c \in {MEDIUM, PyStr("medium"), PyStr("Medium")} THEN 2
    ELSE IF c \in {HIGH, PyStr("high"), PyStr("High")} THEN 3
    ELSE 1

\* confidence_map.get(c, 1); a list or a dict is unhashable (see
\* ConfidenceUnhashable), every other value that is not a key weighs 1
ConfidenceWeight(c) ==
    IF c = LOW THEN 1
    ELSE IF c = MEDIUM THEN 2
    ELSE IF c = HIGH THEN 3
    ELSE 1

ConfidenceUnhashable(c) == c.k \in {"list", "dict"}

RECURSIVE SumWeights(_)
SumWeights(confidences) ==
    IF confidences = <<>> THEN 0
    ELSE ConfidenceWeight(Head(confidences)) + SumWeights(Tail(confidences))

\* num / den >= tnum / tden for positive den and tden.  The code divides two
\* small integers in floating point and compares with 2.5, 1.5, 0.75 or 0.5,
\* all of which are binary fractions: the rounded quotient is on the same
\* side of the threshold as the exact one.
RatioAtLeast(num, den, tnum, tden) == num * tden >= tnum * den

\* thresholds that exclude the means 2.5 and 1.5
ClassifyConfidence_Strict(total, n) ==
    IF 2 * total > 5 * n THEN "HIGH"
    ELSE IF 2 * total > 3 * n THEN "MEDIUM"
    ELSE "LOW"

\* the classification of avg_confidence_num, for a non-empty list
ClassifyConfidence(total, n) ==
    IF RatioAtLeast(total, n, 5, 2) THEN "HIGH"
    ELSE IF RatioAtLeast(total, n, 3, 2) THEN "MEDIUM"
    ELSE "LOW"

\* MEDIUM for an empty list
AverageConfidence_EmptyMedium(confidences) ==
    IF Len(confidences) > 0
    THEN ClassifyConfidence(SumWeights(confidences), Len(confidences))
    ELSE "MEDIUM"

AverageConfidence(confidences) ==
    IF Len(confidences) > 0
    THEN ClassifyConfidence(SumWeights(confidences), Len(confidences))
    ELSE "LOW"

\* max(a, b, c)
Max3(a, b, c) ==
    IF a >= b /\ a >= c THEN a ELSE IF b >= c THEN b ELSE c

\* thresholds that exclude the ratios 0.75 and 0.5
AgreementLevel_Strict(buy_votes, sell_votes, neutral_votes, total_votes) ==
    IF total_votes = 0 THEN "NO_DATA"
    ELSE IF total_votes = 1 THEN "SINGLE_SOURCE"
    ELSE LET max_votes == Max3(buy_votes, sell_votes, neutral_votes) IN
         IF 4 * max_votes > 3 * total_votes THEN "STRONG_AGREEMENT"
         ELSE IF 2 * max_votes > total_votes THEN "MODERATE_AGREEMENT"
         ELSE "MIXED_SIGNALS"

\* STRONG_AGREEMENT from half of the votes on
AgreementLevel_HalfStrong(buy_votes, sell_votes, neutral_votes, total_votes) ==
    IF total_votes = 0 THEN "NO_DATA"
    ELSE IF total_votes = 1 THEN "SINGLE_SOURCE"
    ELSE LET max_votes == Max3(buy_votes, sell_votes, neutral_votes) IN
         IF RatioAtLeast(max_votes, total_votes, 1, 2) THEN "STRONG_AGREEMENT"
         ELSE "MIXED_SIGNALS"

\* MODERATE_AGREEMENT only above half of the votes
AgreementLevel_MajorityModerate(buy_votes, sell_votes, neutral_votes, total_votes) ==
    IF total_votes = 0 THEN "NO_DATA"
    ELSE IF total_votes = 1 THEN "SINGLE_SOURCE"
    ELSE LET max_votes == Max3(buy_votes, sell_votes, neutral_votes) IN
         IF RatioAtLeast(max_votes, total_votes, 3, 4) THEN "STRONG_AGREEMENT"
         ELSE IF 2 * max_votes > total_votes THEN "MODERATE_AGREEMENT"
         ELSE "MIXED_SIGNALS"

AgreementLevel(buy_votes, sell_votes, neutral_votes, total_votes) ==
    IF total_votes = 0 THEN "NO_DATA"
    ELSE IF total_votes = 1 THEN "SINGLE_SOURCE"
    ELSE LET max_votes == Max3(buy_votes, sell_votes, neutral_votes) IN
         IF RatioAtLeast(max_votes, total_votes, 3, 4) THEN "STRONG_AGREEMENT"
         ELSE IF RatioAtLeast(max_votes, total_votes, 1, 2) THEN "MODERATE_AGREEMENT"
         ELSE "MIXED_SIGNALS"

\* the part of _calculate_consensus after the extraction loop
Tally(recommendations, confidences) ==
    LET buy_votes == Count(recommendations, "BUY")
        sell_votes == Count(recommendations, "SELL")
        neutral_votes == Count(recommendations, "NEUTRAL")
        total_votes == Len(recommendations)
    IN  IF \E i \in 1..Len(confidences) : ConfidenceUnhashable(confidences[i])
        THEN Raised("TypeError")
        ELSE Returned(
            [overall_recommendation |->
                 OverallRecommendation(buy_votes, sell_votes, neutral_votes),
             buy_votes |-> buy_votes,
             sell_votes |-> sell_votes,
             neutral_votes |-> neutral_votes,
             total_sources |-> total_votes,
             average_confidence |-> AverageConfidence(confidences),
             agreement_level |->
                 AgreementLevel(buy_votes, sell_votes, neutral_votes, total_votes)])

\* AggregatedSignals._calculate_consensus(sources)
calculate_consensus(items) ==
    LET lists == ExtractLoop(items, 1, [recommendations |-> <<>>, confidences |-> <<>>])
    IN  IF lists.status = "raised" THEN lists
        ELSE Tally(lists.value.recommendations, lists.value.confidences)

(***************************************************************************)
(* _generate_summary                                                       *)
(***************************************************************************)
\* str.title() of the provider names
Title(source_name) ==
    CASE source_name = "alphavantage" -> "Alphavantage"
      [] source_name = "twelvedata"   -> "Twelvedata"
      [] source_name = "tradingview"  -> "Tradingview"
      [] source_name = "truefx"       -> "Truefx"
      [] OTHER                        -> source_name

\* the fragments in another order: the votes before the agreement level
ConsensusParts_VotesFirst(c) ==
    << "Consensus Recommendation: " \o c.overall_recommendation,
       "Votes - BUY: " \o ToString(c.buy_votes) \o ", SELL: " \o ToString(c.sell_votes)
           \o ", NEUTRAL: " \o ToString(c.neutral_votes),
       "Agreement Level: " \o c.agreement_level,
       "Average Confidence: " \o c.average_confidence >>

\* the four fragments every summary starts with
ConsensusParts(c) ==
    << "Consensus Recommendation: " \o c.overall_recommendation,
       "Agreement Level: " \o c.agreement_level,
       "Votes - BUY: " \o ToString(c.buy_votes) \o ", SELL: " \o ToString(c.sell_votes)
           \o ", NEUTRAL: " \o ToString(c.neutral_votes),
       "Average Confidence: " \o c.average_confidence >>

\* truefx listed like alphavantage and twelvedata
SourcePart_WithTrueFX(source_name, source_data) ==
    IF PyIn("error", source_data) THEN Returned(<<>>)
    ELSE IF source_name = "tradingview" /\ PyIn("summary", source_data)
    THEN LET s == source_data.v["summary"] IN
         IF s.k # "dict" THEN Raised("AttributeError")
         ELSE Returned(<< "TradingView: "
                  \o PyFormat(PyGet(s, "recommendation", PyStr("N/A"))) >>)
    ELSE IF source_name \in {"alphavantage", "twelvedata", "truefx"}
            /\ PyIn("signals", source_data)
    THEN LET s == source_data.v["signals"] IN
         IF s.k # "dict" THEN Raised("AttributeError")
         ELSE Returned(<< Title(source_name) \o ": "
                  \o PyFormat(PyGet(s, "recommendation", PyStr("N/A"))) >>)
    ELSE Returned(<<>>)

\* no fragment for a sub-object that has no recommendation
SourcePart_SkipMissing(source_name, source_data) ==
    IF PyIn("error", source_data) THEN Returned(<<>>)
    ELSE IF source_name = "tradingview" /\ PyIn("summary", source_data)
    THEN LET s == source_data.v["summary"] IN
         IF s.k # "dict" THEN Raised("AttributeError")
         ELSE IF ~PyIn("recommendation", s) THEN Returned(<<>>)
         ELSE Returned(<< "TradingView: " \o PyFormat(s.v["recommendation"]) >>)
    ELSE IF source_name \in {"alphavantage", "twelvedata"} /\ PyIn("signals", source_data)
    THEN LET s == source_data.v["signals"] IN
         IF s.k # "dict" THEN Raised("AttributeError")
         ELSE IF ~PyIn("recommendation", s) THEN Returned(<<>>)
         ELSE Returned(<< Title(source_name) \o ": " \o PyFormat(s.v["recommendation"]) >>)
    ELSE Returned(<<>>)

\* the body of the loop over sources.items(): the fragments one source
\* appends (none or one), or the exception of .get on a value that has none
SourcePart(source_name, source_data) ==
    IF PyIn("error", source_data) THEN Returned(<<>>)
    ELSE IF source_name = "tradingview" /\ PyIn("summary", source_data)
    THEN LET s == source_data.v["summary"] IN
         IF s.k # "dict" THEN Raised("AttributeError")
         ELSE Returned(<< "TradingView: "
                  \o PyFormat(PyGet(s, "recommendation", PyStr("N/A"))) >>)
    ELSE IF source_name \in {"alphavantage", "twelvedata"} /\ PyIn("signals", source_data)
    THEN LET s == source_data.v["signals"] IN
         IF s.k # "dict" THEN Raised("AttributeError")
         ELSE Returned(<< Title(source_name) \o ": "
                  \o PyFormat(PyGet(s, "recommendation", PyStr("N/A"))) >>)
    ELSE Returned(<<>>)

RECURSIVE SourceParts(_, _, _)
SourceParts(items, i, summary_parts) ==
    IF i > Len(items) THEN Returned(summary_parts)
    ELSE LET part == SourcePart(items[i].name, items[i].data) IN
         IF part.status = "raised" THEN part
         ELSE SourceParts(items, i + 1, summary_parts \o part.value)

\* " | ".join(summary_parts)
RECURSIVE Join(_)
Join(parts) ==
    IF parts = <<>> THEN ""
    ELSE IF Len(parts) = 1 THEN parts[1]
    ELSE parts[1] \o " | " \o Join(Tail(parts))

\* the list summary_parts at the end of _generate_summary
SummaryParts(items, c) == SourceParts(items, 1, ConsensusParts(c))

\* AggregatedSignals._generate_summary(sources, consensus)
generate_summary(items, c) ==
    LET parts == SummaryParts(items, c) IN
    IF parts.status = "raised" THEN parts ELSE Returned(Join(parts.value))

(***************************************************************************)
(* AggregatedSignals.get                                                   *)
(***************************************************************************)
\* sources[name] = value, for a name that is not yet a key
SetItem(items, name, value) == Append(items, [name |-> name, data |-> value])

\* an error marker that drops the exception message
ErrorMarker_NoMessage(message) == PyDict([error |-> PyStr("error")])

\* {'error': str(e)}
ErrorMarker(message) == PyDict([error |-> PyStr(message)])

\* a try/except block that gives up the remaining adapters when its adapter
\* raises
TryFetch_AbortOnRaise(r, name, next, outcome) ==
    /\ pc[r] = name
    /\ sources' = [sources EXCEPT ![r] =
           IF outcome.status = "raised"
           THEN SetItem(@, name, ErrorMarker(outcome.exc))
           ELSE SetItem(@, name, outcome.value)]
    /\ calls' = [calls EXCEPT ![r] = Append(@, [name |-> name, outcome |-> outcome])]
    /\ pc' = [pc EXCEPT ![r] = IF outcome.status = "raised" THEN "consensus" ELSE next]
    /\ UNCHANGED <<symbol, interval, consensus, summary, result, response>>

\* a try/except block that stores the entry in the sources map of every
\* request in progress
TryFetch_Shared(r, name, next, outcome) ==
    /\ pc[r] = name
    /\ sources' = [q \in DOMAIN sources |->
           IF outcome.status = "raised"
           THEN SetItem(sources[q], name, ErrorMarker(outcome.exc))
           ELSE SetItem(sources[q], name, outcome.value)]
    /\ calls' = [calls EXCEPT ![r] = Append(@, [name |-> name, outcome |-> outcome])]
    /\ pc' = [pc EXCEPT ![r] = next]
    /\ UNCHANGED <<symbol, interval, consensus, summary, result, response>>

\* one try/except block of get: the adapter either returns a value, which is
\* stored, or raises an Exception, whose message is stored in an error marker
TryFetch(r, name, next, outcome) ==
    /\ pc[r] = name
    /\ sources' = [sources EXCEPT ![r] =
           IF outcome.status = "raised"
           THEN SetItem(@, name, ErrorMarker(outcome.exc))
           ELSE SetItem(@, name, outcome.value)]
    /\ calls' = [calls EXCEPT ![r] = Append(@, [name |-> name, outcome |-> outcome])]
    /\ pc' = [pc EXCEPT ![r] = next]
    /\ UNCHANGED <<symbol, interval, consensus, summary, result, response>>

\* consensus = AggregatedSignals._calculate_consensus(sources); an exception
\* leaves get
CallCalculateConsensus(r) ==
    /\ pc[r] = "consensus"
    /\ LET c == calculate_consensus(sources[r]) IN
       /\ consensus' = [consensus EXCEPT ![r] = c]
       /\ pc' = [pc EXCEPT ![r] = IF c.status = "raised" THEN "failed" ELSE "summary"]
       /\ result' = [result EXCEPT ![r] = IF c.status = "raised" THEN c ELSE @]
    /\ UNCHANGED <<symbol, interval, sources, summary, response, calls>>

\* the call AggregatedSignals._generate_summary(sources, consensus) in the
\* dict display that builds the response
CallGenerateSummary(r) ==
    /\ pc[r] = "summary"
    /\ LET t == generate_summary(sources[r], consensus[r].value) IN
       /\ summary' = [summary EXCEPT ![r] = t]
       /\ pc' = [pc EXCEPT ![r] = IF t.status = "raised" THEN "failed" ELSE "return"]
       /\ result' = [result EXCEPT ![r] = IF t.status = "raised" THEN t ELSE @]
    /\ UNCHANGED <<symbol, interval, sources, consensus, response, calls>>

\* the ISO timestamps datetime.utcnow() may give
Timestamps == {"2024-01-15T10:30:45", "2024-01-15T10:30:46"}

\* the symbol echoed as it was given
Return_RawSymbol(r) ==
    /\ pc[r] = "return"
    /\ \E now \in Timestamps :
           result' = [result EXCEPT ![r] = Returned(
               [symbol |-> symbol[r],
                timestamp |-> now,
                interval |-> interval[r],
                sources |-> sources[r],
                consensus |-> consensus[r].value,
                summary |-> summary[r].value])]
    /\ pc' = [pc EXCEPT ![r] = "done"]
    /\ UNCHANGED <<symbol, interval, sources, consensus, summary, response, calls>>

\* return result, 200
Return(r) ==
    /\ pc[r] = "return"
    /\ \E now \in Timestamps :
           result' = [result EXCEPT ![r] = Returned(
               [symbol |-> PyUpper(symbol[r]),
                timestamp |-> now,
                interval |-> interval[r],
                sources |-> sources[r],
                consensus |-> consensus[r].value,
                summary |-> summary[r].value])]
    /\ pc' = [pc EXCEPT ![r] = "done"]
    /\ UNCHANGED <<symbol, interval, sources, consensus, summary, response, calls>>

(***************************************************************************)
(* @ns.marshal_with(aggregated_model): the response keeps the fields the   *)
(* model declares and no other key of the dict get returned                *)
(***************************************************************************)
\* the keys of the nested model 'SourceSignals', in the order declared
SourceSignalsFields == <<"tradingview", "alphavantage", "twelvedata", "truefx">>

\* the keys of the nested model 'Consensus'
ConsensusFields ==
    {"overall_recommendation", "buy_votes", "sell_votes", "neutral_votes",
     "average_confidence", "agreement_level"}

\* the keys of aggregated_model
AggregatedFields == {"symbol", "timestamp", "sources", "consensus", "summary"}

\* sources.get(name): the value stored under the name, None without one
SourcesGet(items, name) ==
    IF \E i \in 1..Len(items) : items[i].name = name
    THEN items[CHOOSE i \in 1..Len(items) : items[i].name = name].data
    ELSE PyNone

\* the nested model 'SourceSignals' applied to the sources map: one Raw
\* field per declared key
MarshalSources(items) ==
    [i \in 1..Len(SourceSignalsFields) |->
        [name |-> SourceSignalsFields[i], data |-> SourcesGet(items, SourceSignalsFields[i])]]

\* the nested model 'Consensus' applied to the consensus dict
MarshalConsensus(c) == [f \in ConsensusFields |-> c[f]]

\* marshal(data, aggregated_model) of the dict get returns: one output
\* field per declared key, the String fields being strings already
marshal(data) ==
    [f \in AggregatedFields |->
        CASE f = "sources"   -> MarshalSources(data.sources)
          [] f = "consensus" -> MarshalConsensus(data.consensus)
          [] OTHER           -> data[f]]

\* the wrapper of marshal_with around get: the dict get returned goes
\* through the model
Marshal(r) ==
    /\ pc[r] = "done"
    /\ response' = [response EXCEPT ![r] = Returned(marshal(result[r].value))]
    /\ pc' = [pc EXCEPT ![r] = "responded"]
    /\ UNCHANGED <<symbol, interval, sources, consensus, summary, result, calls>>

(***************************************************************************)
(* The adapters as get sees them: each call returns a dict or raises       *)
(***************************************************************************)
\* payload builders, keeping the keys the aggregation reads
TradingViewPayload(rec, buy, sell) ==
    PyDict([source |-> PyStr("TradingView TA"),
            summary |-> PyDict([recommendation |-> PyStr(rec),
                                buy_signals |-> PyNum(buy),
                                sell_signals |-> PyNum(sell)])])

SignalsWithConfidence(rec, conf) ==
    PyDict([recommendation |-> PyStr(rec), confidence |-> PyStr(conf)])

SignalsWithoutConfidence(rec) ==
    PyDict([recommendation |-> PyStr(rec), reason |-> PyStr("Insufficient data points")])

PriceSeriesPayload(source, signals) ==
    PyDict([source |-> PyStr(source), signals |-> signals])

TrueFXPayload(signals_list) ==
    PyDict([source |-> PyStr("TrueFX"),
            signals |-> PyDict([total_signals |-> PyNum(Len(signals_list)),
                                signals |-> PyList(signals_list)])])

\* the error dict an adapter returns from its own except clause
AdapterError(source, message) ==
    PyDict([source |-> PyStr(source), error |-> PyStr(message)])

\* messages of the exceptions an adapter call may raise
Messages == {"timed out", "connection refused"}

TradingViewReturns ==
    {AdapterError("TradingView TA", "timed out")}
    \cup {TradingViewPayload("BUY", 2, 1), TradingViewPayload("SELL", 1, 2),
          TradingViewPayload("NEUTRAL", 0, 0), TradingViewPayload("STRONG_BUY", 2, 0)}

AlphaVantageReturns ==
    {AdapterError("Alpha Vantage", "API rate limit exceeded")}
    \cup {PriceSeriesPayload("Alpha Vantage", g) :
            g \in {SignalsWithConfidence("BUY", "MEDIUM"), SignalsWithConfidence("SELL", "HIGH"),
                   SignalsWithConfidence("NEUTRAL", "LOW"), SignalsWithoutConfidence("NEUTRAL")}}

TwelveDataReturns ==
    {AdapterError("Twelve Data", "Unexpected response format")}
    \cup {PriceSeriesPayload("Twelve Data", g) :
            g \in {SignalsWithConfidence("BUY", "HIGH"), SignalsWithConfidence("SELL", "MEDIUM"),
                   SignalsWithConfidence("NEUTRAL", "LOW"), SignalsWithoutConfidence("NEUTRAL")}}

\* TrueFXService.AVAILABLE_PAIRS
AVAILABLE_PAIRS ==
    {"AUD/JPY", "AUD/USD", "EUR/AUD", "EUR/CHF", "EUR/GBP", "EUR/JPY", "EUR/USD",
     "GBP/JPY", "GBP/USD", "NZD/USD", "USD/CAD", "USD/CHF", "USD/JPY"}

\* TrueFXService._format_symbol on the symbols of the model: uppercase, and
\* a symbol of six characters split 3/3
format_symbol(sym) ==
    CASE PyUpper(sym) = "EURUSD" -> "EUR/USD"
      [] PyUpper(sym) = "XAUUSD" -> "XAU/USD"
      [] OTHER                   -> PyUpper(sym)

\* five entries of which the first follows the trend
TimeSlotSignals_Trend ==
    [i \in 1..5 |-> IF i = 1 THEN SignalsWithConfidence("BUY", "HIGH")
                    ELSE SignalsWithConfidence("NEUTRAL", "MEDIUM")]

\* the five entries TrueFXService._generate_intraday_signals builds, one per
\* time slot
TimeSlotSignals == [i \in 1..5 |-> SignalsWithConfidence("NEUTRAL", "MEDIUM")]

\* what TrueFXService.get_intraday_signals(symbol) returns
TrueFXReturns(sym) ==
    IF format_symbol(sym) \notin AVAILABLE_PAIRS
    THEN {AdapterError("TrueFX", "Pair " \o format_symbol(sym) \o " not available")}
    ELSE {TrueFXPayload(TimeSlotSignals)}

\* what a call of an adapter can do
Outcomes(returns) ==
    {Returned(d) : d \in returns} \cup {Raised(m) : m \in Messages}

FetchTradingView(r) ==
    \E o \in Outcomes(TradingViewReturns) : TryFetch(r, "tradingview", "alphavantage", o)

FetchAlphaVantage(r) ==
    \E o \in Outcomes(AlphaVantageReturns) : TryFetch(r, "alphavantage", "twelvedata", o)

FetchTwelveData(r) ==
    \E o \in Outcomes(TwelveDataReturns) : TryFetch(r, "twelvedata", "truefx", o)

FetchTrueFX(r) ==
    \E o \in Outcomes(TrueFXReturns(symbol[r])) : TryFetch(r, "truefx", "consensus", o)

(***************************************************************************)
(* Spec: one request served by get                                         *)
(***************************************************************************)
Symbols == {"EURUSD", "eurusd", "XAUUSD"}
Intervals == {"15min", "1hour"}

Providers == <<"tradingview", "alphavantage", "twelvedata", "truefx">>

\* the state of the requests at a given position, nothing computed yet
Start(reqs, at) ==
    /\ pc = [r \in reqs |-> at]
    /\ consensus = [r \in reqs |-> Pending]
    /\ summary = [r \in reqs |-> Pending]
    /\ result = [r \in reqs |-> Pending]
    /\ response = [r \in reqs |-> Pending]
    /\ calls = [r \in reqs |-> <<>>]

Init ==
    /\ symbol \in [{1} -> Symbols]
    /\ interval \in [{1} -> Intervals]
    /\ sources = [r \in {1} |-> <<>>]
    /\ Start({1}, "tradingview")

Next ==
    \/ \E r \in Requests : FetchTradingView(r)
    \/ \E r \in Requests : FetchAlphaVantage(r)
    \/ \E r \in Requests : FetchTwelveData(r)
    \/ \E r \in Requests : FetchTrueFX(r)
    \/ \E r \in Requests : CallCalculateConsensus(r)
    \/ \E r \in Requests : CallGenerateSummary(r)
    \/ \E r \in Requests : Return(r)
    \/ \E r \in Requests : Marshal(r)

Spec == Init /\ [][Next]_vars

(***************************************************************************)
(* SpecCore: _calculate_consensus and _generate_summary applied to every   *)
(* sources map of a bounded family of well-shaped entries                  *)
(***************************************************************************)
MaxSignalCount == 1
MaxTicks == 1

\* the recommendations the consensus counts
Recognized == {"BUY", "SELL", "NEUTRAL"}

\* recommendation strings of the inputs; STRONG_BUY is what the TradingView
\* summary gives besides the three the consensus counts
CoreRecommendations == {"BUY", "SELL", "NEUTRAL", "STRONG_BUY"}
CoreConfidences == {"LOW", "MEDIUM", "HIGH"}

\* (buy_signals, sell_signals) of the tradingview inputs
CoreSignalCounts ==
    {c \in (0..MaxSignalCount) \X (0..MaxSignalCount) : c[1] + c[2] <= MaxSignalCount}

CoreError == ErrorMarker("timed out")

CoreTradingView ==
    {CoreError, EmptyDict, PyDict([summary |-> EmptyDict])}
    \cup {PyDict([summary |-> PyDict([recommendation |-> PyStr(rec),
                                      buy_signals |-> PyNum(c[1]),
                                      sell_signals |-> PyNum(c[2])])]) :
            rec \in CoreRecommendations, c \in CoreSignalCounts}

\* alphavantage and twelvedata entries; a missing confidence is read as LOW
CorePriceSeries(conf) ==
    {CoreError, EmptyDict, PyDict([signals |-> EmptyDict])}
    \cup {PyDict([signals |-> PyDict([recommendation |-> PyStr(rec)])]) :
            rec \in Recognized}
    \cup {PyDict([signals |-> SignalsWithConfidence(rec, conf)]) : rec \in Recognized}

CoreAlphaVantage == CorePriceSeries("HIGH")
CoreTwelveData == CorePriceSeries("MEDIUM")

\* entries of a tick list after the first
LaterTicks == {SignalsWithConfidence("BUY", "HIGH")}

RECURSIVE TickTails(_)
TickTails(n) ==
    IF n = 0 THEN {<<>>}
    ELSE TickTails(n - 1)
         \cup {Append(q, t) : q \in {x \in TickTails(n - 1) : Len(x) = n - 1}, t \in LaterTicks}

\* a tick entry that carries neither a recommendation nor a confidence
BareTick == PyDict([time |-> PyStr("00:00")])

CoreFirstTicks ==
    {BareTick} \cup {SignalsWithConfidence(rec, conf) :
                        rec \in CoreRecommendations, conf \in CoreConfidences}

CoreTickLists ==
    {<<>>} \cup {<<first>> \o tail : first \in CoreFirstTicks,
                                     tail \in TickTails(MaxTicks - 1)}

CoreTrueFX ==
    {CoreError, EmptyDict, PyDict([signals |-> EmptyDict])}
    \cup {PyDict([signals |-> PyDict([signals |-> PyList(q)])]) : q \in CoreTickLists}

\* the sources dict with the four providers in the order get inserts them
SourcesOf(tv, av, td, fx) ==
    <<[name |-> "tradingview", data |-> tv], [name |-> "alphavantage", data |-> av],
      [name |-> "twelvedata", data |-> td], [name |-> "truefx", data |-> fx]>>

InitCore ==
    /\ symbol = [r \in {1} |-> "EURUSD"]
    /\ interval = [r \in {1} |-> "15min"]
    /\ \E tv \in CoreTradingView, av \in CoreAlphaVantage,
          td \in CoreTwelveData, fx \in CoreTrueFX :
           sources = [r \in {1} |-> SourcesOf(tv, av, td, fx)]
    /\ Start({1}, "consensus")

NextCore ==
    \/ \E r \in Requests : CallCalculateConsensus(r)
    \/ \E r \in Requests : CallGenerateSummary(r)

SpecCore == InitCore /\ [][NextCore]_vars

(***************************************************************************)
(* SpecShapes: the same two functions applied to sources maps whose        *)
(* entries are dictionaries of any shape                                   *)
(***************************************************************************)
\* values that are not what the extraction expects at their place
OddValues == {PyNone, PyNum(5), PyStr("n/a"), PyList(<<>>)}

ShapesTradingView ==
    {CoreError, TradingViewPayload("BUY", 2, 1), TradingViewPayload("SELL", 0, 0)}
    \cup {PyDict([summary |-> x]) : x \in OddValues \cup {PyStr("recommendation")}}
    \cup {PyDict([summary |-> PyDict([recommendation |-> x])]) : x \in OddValues}
    \cup {PyDict([summary |-> PyDict([recommendation |-> PyStr("BUY"), buy_signals |-> x])]) :
            x \in {PyNone, PyStr("8")}}

ShapesPriceSeries ==
    {CoreError, PyDict([signals |-> SignalsWithConfidence("BUY", "HIGH")])}
    \cup {PyDict([signals |-> x]) : x \in {PyNone, PyStr("n/a")}}
    \cup {PyDict([signals |-> PyDict([recommendation |-> x])]) : x \in {PyNone, PyNum(5)}}
    \cup {PyDict([signals |-> PyDict([recommendation |-> PyStr("SELL"), confidence |-> x])]) :
            x \in {PyNone, PyList(<<>>)}}

ShapesTrueFX ==
    {CoreError, TrueFXPayload(<<SignalsWithConfidence("NEUTRAL", "MEDIUM")>>)}
    \cup {PyDict([signals |-> x]) : x \in {PyNone, PyStr("signals")}}
    \cup {PyDict([signals |-> PyDict([signals |-> x])]) :
            x \in OddValues \cup {PyDict([a |-> PyNone])}}
    \cup {PyDict([signals |-> PyDict([signals |-> PyList(<<x>>)])]) :
            x \in {PyNone, PyStr("BUY"), PyDict([recommendation |-> PyNum(5)])}}

InitShapes ==
    /\ symbol = [r \in {1} |-> "EURUSD"]
    /\ interval = [r \in {1} |-> "15min"]
    /\ \E tv \in ShapesTradingView, av \in ShapesPriceSeries,
          td \in ShapesPriceSeries, fx \in ShapesTrueFX :
           sources = [r \in {1} |-> SourcesOf(tv, av, td, fx)]
    /\ Start({1}, "consensus")

SpecShapes == InitShapes /\ [][NextCore]_vars

(***************************************************************************)
(* Vocabulary of the properties, for sources maps of SpecCore: what a      *)
(* source carries, read off the map itself                                 *)
(***************************************************************************)
HasErrorMarker(item) == "error" \in DOMAIN item.data.v

\* the dictionaries in which the provider's recommendation is looked up:
\* the 'summary' of tradingview, the 'signals' of alphavantage and
\* twelvedata, the first entry of the tick list of truefx (none or one)
Holder(item) ==
    LET d == item.data.v IN
    IF HasErrorMarker(item) THEN {}
    ELSE IF item.name = "tradingview"
         THEN (IF "summary" \in DOMAIN d THEN {d["summary"].v} ELSE {})
    ELSE IF item.name \in {"alphavantage", "twelvedata"}
         THEN (IF "signals" \in DOMAIN d THEN {d["signals"].v} ELSE {})
    ELSE IF "signals" \in DOMAIN d /\ "signals" \in DOMAIN d["signals"].v
            /\ Len(d["signals"].v["signals"].v) > 0
         THEN {d["signals"].v["signals"].v[1].v}
    ELSE {}

\* the source has a recommendation field
HasRecommendationField(item) ==
    \E h \in Holder(item) : "recommendation" \in DOMAIN h

\* the recommendation strings the source votes with (none or one): its
\* recommendation field, or NEUTRAL for a first tick that has none
VoteOf(item) ==
    {IF "recommendation" \in DOMAIN h THEN PyUpper(h["recommendation"].v) ELSE "NEUTRAL" :
        h \in {g \in Holder(item) : item.name = "truefx" \/ "recommendation" \in DOMAIN g}}

\* the weight of the confidence the source votes with
WeightOf(item) ==
    LET h == CHOOSE g \in Holder(item) : TRUE
        level == IF item.name = "tradingview"
                 THEN (IF \/ 2 * h["buy_signals"].v > 3 * h["sell_signals"].v
                          \/ 2 * h["sell_signals"].v > 3 * h["buy_signals"].v
                       THEN "HIGH" ELSE "MEDIUM")
                 ELSE IF "confidence" \in DOMAIN h THEN h["confidence"].v ELSE "LOW"
    IN  CASE level = "HIGH" -> 3 [] level = "MEDIUM" -> 2 [] OTHER -> 1

\* positions of the sources that yield a signal
Used(items) == {i \in 1..Len(items) : VoteOf(items[i]) # {}}

VotesFor(items, rec) == Cardinality({i \in Used(items) : rec \in VoteOf(items[i])})

RECURSIVE SumOver(_, _)
SumOver(items, positions) ==
    IF positions = {} THEN 0
    ELSE LET i == CHOOSE j \in positions : TRUE IN
         WeightOf(items[i]) + SumOver(items, positions \ {i})

WeightSum(items) == SumOver(items, Used(items))

\* the consensus of request r has been computed and returned
HasConsensus(r) == consensus[r].status = "returned"
Cons(r) == consensus[r].value

(***************************************************************************)
(* Properties                                                              *)
(***************************************************************************)

\* C1: for every sources map the returned consensus satisfies
\* buy_votes + sell_votes + neutral_votes = total_sources.
C1_VotesSumToTotal ==
    \A r \in Requests :
        HasConsensus(r) =>
            Cons(r).buy_votes + Cons(r).sell_votes + Cons(r).neutral_votes
                = Cons(r).total_sources

\* a source whose recommendation, uppercased, is none of BUY, SELL, NEUTRAL
Unrecognized(item) == \E rec \in VoteOf(item) : rec \notin Recognized

\* the sources map with every such source replaced by an error marker
WithoutUnrecognized(items) ==
    [i \in 1..Len(items) |->
        IF Unrecognized(items[i])
        THEN [name |-> items[i].name, data |-> CoreError]
        ELSE items[i]]

\* C2: a non-error source with an unrecognized recommendation string yields
\* no signal: the consensus is the one obtained without that source (same
\* votes, total_sources, average confidence and agreement level).
C2_UnrecognizedRejected ==
    \A r \in Requests :
        HasConsensus(r) =>
            consensus[r] = calculate_consensus(WithoutUnrecognized(sources[r]))

\* the entry get must have stored for an adapter call
EntryOf(call) ==
    IF call.outcome.status = "raised"
    THEN PyDict([error |-> PyStr(call.outcome.exc)])
    ELSE call.outcome.value

\* C3: whatever subset of the adapter calls raises, get does not fail; the
\* entries of sources are, in order, those of the calls made so far: the
\* error marker with the exception message for a call that raised, the
\* returned value for a call that returned; once the four calls are made
\* there is one entry per provider, and the response carries these entries.
C3_EntryPerAdapter ==
    \A r \in Requests :
        /\ pc[r] # "failed"
        /\ Len(sources[r]) = Len(calls[r])
        /\ \A i \in 1..Len(calls[r]) :
              /\ sources[r][i].name = calls[r][i].name
              /\ sources[r][i].data = EntryOf(calls[r][i])
        /\ pc[r] \in {"consensus", "summary", "return", "done", "responded"} =>
              [i \in 1..Len(sources[r]) |-> sources[r][i].name] = Providers
        /\ pc[r] \in {"done", "responded"} =>
              /\ result[r].status = "returned"
              /\ result[r].value.sources = sources[r]

\* a finished request whose first adapter raised and whose second returned
C3_Witness ==
    \E r \in Requests :
        /\ pc[r] = "done"
        /\ result[r].status = "returned"
        /\ calls[r][1].outcome.status = "raised"
        /\ calls[r][2].outcome.status = "returned"
        /\ ~HasErrorMarker(sources[r][2])

\* C4: for every sources map whose entries are dictionaries, of any shape,
\* _calculate_consensus and _generate_summary return normally.
C4_NoFatalError ==
    \A r \in Requests :
        /\ consensus[r].status # "raised"
        /\ summary[r].status # "raised"

\* C5: overall_recommendation is BUY exactly when buy_votes exceeds both
\* other counts, SELL exactly when sell_votes exceeds both others, NEUTRAL
\* in every other case, ties for the lead included.
C5_OverallRecommendation ==
    \A r \in Requests :
        HasConsensus(r) =>
            LET b == Cons(r).buy_votes
                s == Cons(r).sell_votes
                n == Cons(r).neutral_votes
                o == Cons(r).overall_recommendation
            IN  /\ o \in {"BUY", "SELL", "NEUTRAL"}
                /\ (o = "BUY") <=> (b > s /\ b > n)
                /\ (o = "SELL") <=> (s > b /\ s > n)
                /\ (b = 1 /\ s = 1 /\ n = 1) => o = "NEUTRAL"
                /\ (b = 2 /\ s = 2 /\ n = 0) => o = "NEUTRAL"

\* a consensus of 2 BUY, 2 SELL, 0 NEUTRAL
C5_Witness ==
    \E r \in Requests :
        /\ HasConsensus(r)
        /\ Cons(r).buy_votes = 2 /\ Cons(r).sell_votes = 2 /\ Cons(r).neutral_votes = 0
        /\ Cons(r).overall_recommendation = "NEUTRAL"

C7_SingleSource ==
    \A r \in Requests :
        (HasConsensus(r) /\ Cardinality(Used(sources[r])) = 1) =>
            /\ Cons(r).agreement_level = "SINGLE_SOURCE"
            /\ \A i \in Used(sources[r]) :
                  Cons(r).overall_recommendation \in VoteOf(sources[r][i])

\* C8: with n >= 1 used signals whose weights sum to s, average_confidence
\* is HIGH iff 2s >= 5n, MEDIUM iff 3n <= 2s < 5n, LOW iff 2s < 3n.
C8_AverageConfidence ==
    \A r \in Requests :
        (HasConsensus(r) /\ Used(sources[r]) # {}) =>
            LET n == Cardinality(Used(sources[r]))
                s == WeightSum(sources[r])
                a == Cons(r).average_confidence
            IN  /\ (a = "HIGH") <=> (2 * s >= 5 * n)
                /\ (a = "MEDIUM") <=> (3 * n <= 2 * s /\ 2 * s < 5 * n)
                /\ (a = "LOW") <=> (2 * s < 3 * n)

\* four used signals whose mean weight is exactly 2.5
C8_Witness ==
    \E r \in Requests :
        /\ HasConsensus(r)
        /\ Cardinality(Used(sources[r])) = 4
        /\ WeightSum(sources[r]) = 10
        /\ Cons(r).average_confidence = "HIGH"

\* C9: with total_sources >= 2 and m the largest vote count,
\* agreement_level is STRONG_AGREEMENT iff 4m >= 3 total_sources,
\* MODERATE_AGREEMENT iff 2m >= total_sources and 4m < 3 total_sources,
\* MIXED_SIGNALS otherwise.
C9_AgreementLevel ==
    \A r \in Requests :
        (HasConsensus(r) /\ Cons(r).total_sources >= 2) =>
            LET counts == {Cons(r).buy_votes, Cons(r).sell_votes, Cons(r).neutral_votes}
                m == CHOOSE x \in counts : \A y \in counts : x >= y
                t == Cons(r).total_sources
                g == Cons(r).agreement_level
            IN  /\ (g = "STRONG_AGREEMENT") <=> (4 * m >= 3 * t)
                /\ (g = "MODERATE_AGREEMENT") <=> (2 * m >= t /\ 4 * m < 3 * t)
                /\ (g = "MIXED_SIGNALS") <=> (2 * m < t)

\* three of four votes agree: the ratio is exactly 0.75
C9_Witness ==
    \E r \in Requests :
        /\ HasConsensus(r)
        /\ Cons(r).total_sources = 4
        /\ Cons(r).buy_votes = 3 /\ Cons(r).sell_votes = 1
        /\ Cons(r).agreement_level = "STRONG_AGREEMENT"

OnlyUsed(items) ==
    [i \in 1..Len(items) |->
        IF i \in Used(items) THEN items[i]
        ELSE [name |-> items[i].name, data |-> CoreError]]

MaxIndicatorCount == 8

\* a tradingview summary with a recommendation and with the count keys of
\* the set keys
SummaryWith(rec, keys, buy, sell) ==
    PyDict([key \in {"recommendation"} \cup keys |->
               CASE key = "recommendation" -> PyStr(rec)
                 [] key = "buy_signals"    -> PyNum(buy)
                 [] key = "sell_signals"   -> PyNum(sell)])

InitIndicators ==
    /\ symbol = [r \in {1} |-> "EURUSD"]
    /\ interval = [r \in {1} |-> "15min"]
    /\ \E rec \in CoreRecommendations, keys \in SUBSET {"buy_signals", "sell_signals"},
          buy \in 0..MaxIndicatorCount, sell \in 0..MaxIndicatorCount :
           sources = [r \in {1} |->
               SourcesOf(PyDict([summary |-> SummaryWith(rec, keys, buy, sell)]),
                         CoreError, CoreError, CoreError)]
    /\ Start({1}, "consensus")

SpecIndicators == InitIndicators /\ [][NextCore]_vars

\* the count a tradingview summary gives for a key, 0 when the key is missing
IndicatorCount(r, key) ==
    LET h == sources[r][1].data.v["summary"].v IN
    IF key \in DOMAIN h THEN h[key].v ELSE 0

\* C11: for a tradingview source with a recommendation in its summary, the
\* derived confidence is HIGH iff buy_signals > 1.5 * sell_signals or
\* sell_signals > 1.5 * buy_signals, MEDIUM otherwise and never LOW; a
\* missing count is read as 0.  The source being the only one that yields a
\* signal, its confidence is the average confidence of the consensus.
C11_TradingViewConfidence ==
    \A r \in Requests :
        HasConsensus(r) =>
            LET buy == IndicatorCount(r, "buy_signals")
                sell == IndicatorCount(r, "sell_signals")
                a == Cons(r).average_confidence
            IN  /\ Cons(r).total_sources = 1
                /\ (a = "HIGH") <=> (2 * buy > 3 * sell \/ 2 * sell > 3 * buy)
                /\ (a = "MEDIUM") <=> ~(2 * buy > 3 * sell \/ 2 * sell > 3 * buy)
                /\ a # "LOW"
                /\ (buy = 8 /\ sell = 2) => a = "HIGH"
                /\ (buy = 5 /\ sell = 4) => a = "MEDIUM"
                /\ (buy = 0 /\ sell = 0) => a = "MEDIUM"

\* a summary of three buy indicators without a sell count: the missing count
\* is read as 0 and the confidence is HIGH
C11_Witness ==
    \E r \in Requests :
        /\ HasConsensus(r)
        /\ DOMAIN sources[r][1].data.v["summary"].v = {"recommendation", "buy_signals"}
        /\ IndicatorCount(r, "buy_signals") = 3
        /\ Cons(r).average_confidence = "HIGH"

(***************************************************************************)
(* SpecPriceSeries: the two functions applied to a sources map in which    *)
(* tradingview and truefx failed, for every alphavantage and twelvedata    *)
(* entry with or without 'signals', 'recommendation' and 'confidence'      *)
(***************************************************************************)
\* a 'signals' sub-object with the recommendation and confidence keys of the
\* set keys
SignalsWith(keys, rec, conf) ==
    PyDict([key \in keys |->
               CASE key = "recommendation" -> PyStr(rec)
                 [] key = "confidence"     -> PyStr(conf)])

PriceSeriesEntries ==
    {CoreError, EmptyDict}
    \cup {PyDict([signals |-> SignalsWith(keys, rec, conf)]) :
            keys \in SUBSET {"recommendation", "confidence"},
            rec \in Recognized, conf \in CoreConfidences}

InitPriceSeries ==
    /\ symbol = [r \in {1} |-> "EURUSD"]
    /\ interval = [r \in {1} |-> "15min"]
    /\ \E av \in PriceSeriesEntries, td \in PriceSeriesEntries :
           sources = [r \in {1} |-> SourcesOf(CoreError, av, td, CoreError)]
    /\ Start({1}, "consensus")

SpecPriceSeries == InitPriceSeries /\ [][NextCore]_vars

\* the signal an alphavantage or twelvedata entry is to yield (none or one):
\* the recommendation and the confidence of its 'signals' sub-object, LOW
\* for a missing confidence
SignalOf(item) ==
    LET d == item.data.v IN
    IF "signals" \in DOMAIN d /\ "recommendation" \in DOMAIN d["signals"].v
    THEN {[recommendation |-> d["signals"].v["recommendation"].v,
           confidence |-> IF "confidence" \in DOMAIN d["signals"].v
                          THEN d["signals"].v["confidence"].v ELSE "LOW"]}
    ELSE {}

\* positions of alphavantage and twelvedata in the sources map
PriceSeriesPositions == {2, 3}

\* C12: for alphavantage and twelvedata the recommendation and confidence of
\* the signal are those of the nested 'signals' sub-object, the confidence
\* is LOW when 'confidence' is absent, and a source without 'signals' or
\* without its 'recommendation' key yields no signal: the votes are the
\* recommendations so read, and a sole signal's confidence is the average
\* confidence.
C12_PriceSeriesSignal ==
    \A r \in Requests :
        HasConsensus(r) =>
            LET yielding == {i \in PriceSeriesPositions : SignalOf(sources[r][i]) # {}}
                voting(rec) == {i \in yielding :
                                   \E g \in SignalOf(sources[r][i]) : g.recommendation = rec}
            IN  /\ Cons(r).total_sources = Cardinality(yielding)
                /\ Cons(r).buy_votes = Cardinality(voting("BUY"))
                /\ Cons(r).sell_votes = Cardinality(voting("SELL"))
                /\ Cons(r).neutral_votes = Cardinality(voting("NEUTRAL"))
                /\ \A i \in yielding :
                      yielding = {i} =>
                          \A g \in SignalOf(sources[r][i]) :
                              /\ Cons(r).overall_recommendation = g.recommendation
                              /\ Cons(r).average_confidence = g.confidence

\* alphavantage recommends BUY without a confidence, twelvedata has a
\* 'signals' sub-object without a recommendation: one BUY vote of confidence
\* LOW
C12_Witness ==
    \E r \in Requests :
        /\ HasConsensus(r)
        /\ sources[r][2].data = PyDict([signals |-> PyDict([recommendation |-> PyStr("BUY")])])
        /\ sources[r][3].data = PyDict([signals |-> PyDict([confidence |-> PyStr("HIGH")])])
        /\ Cons(r).total_sources = 1 /\ Cons(r).buy_votes = 1
        /\ Cons(r).average_confidence = "LOW"

(***************************************************************************)
(* SpecTicks: the two functions applied to sources maps whose truefx entry *)
(* carries a tick list of up to MaxTickListLen entries                     *)
(***************************************************************************)
MaxTickListLen == 3

\* entries a tick list starts with
FirstTicks ==
    {SignalsWithConfidence("BUY", "HIGH"), SignalsWithConfidence("SELL", "LOW"),
     SignalsWithConfidence("NEUTRAL", "MEDIUM"), BareTick}

\* entries that follow the first; only the first entry is ever read, so a
\* later entry may be anything
FollowingTicks == FirstTicks \cup {PyNone}

\* the sequences of at most n following entries
RECURSIVE TickSuffixes(_)
TickSuffixes(n) ==
    IF n = 0 THEN {<<>>}
    ELSE TickSuffixes(n - 1)
         \cup {Append(q, t) : q \in {x \in TickSuffixes(n - 1) : Len(x) = n - 1},
                              t \in FollowingTicks}

\* a truefx entry with the given tick list
TicksEntry(q) == PyDict([signals |-> PyDict([signals |-> PyList(q)])])

InitTicks ==
    /\ symbol = [r \in {1} |-> "EURUSD"]
    /\ interval = [r \in {1} |-> "15min"]
    /\ \E tv \in {CoreError, TradingViewPayload("BUY", 2, 0)},
          av \in {CoreError, PyDict([signals |-> SignalsWithConfidence("SELL", "HIGH")])},
          first \in FirstTicks, rest \in TickSuffixes(MaxTickListLen - 1) :
           sources = [r \in {1} |->
               SourcesOf(tv, av, CoreError, TicksEntry(<<first>> \o rest))]
    /\ Start({1}, "consensus")

SpecTicks == InitTicks /\ [][NextCore]_vars

\* the tick list of the truefx entry of a sources map
TicksOf(items) == items[4].data.v["signals"].v["signals"].v

\* the sources map with the tick list of its truefx entry replaced
WithTicks(items, q) == [items EXCEPT ![4].data = TicksEntry(q)]

\* C13: for a truefx source with a non-empty tick list the signal is that of
\* the first entry: the consensus is the one of the list cut down to its
\* first entry, and of every list that starts with the same entry.
C13_FirstTickOnly ==
    \A r \in Requests :
        HasConsensus(r) =>
            \A rest \in TickSuffixes(MaxTickListLen - 1) :
                calculate_consensus(
                    WithTicks(sources[r], <<Head(TicksOf(sources[r]))>> \o rest))
                  = consensus[r]

\* a tick list SELL, BUY, <anything> next to a BUY of tradingview: the
\* consensus counts one SELL vote
C13_Witness ==
    \E r \in Requests :
        /\ HasConsensus(r)
        /\ Len(TicksOf(sources[r])) = 3
        /\ TicksOf(sources[r])[1] = SignalsWithConfidence("SELL", "LOW")
        /\ TicksOf(sources[r])[2] = SignalsWithConfidence("BUY", "HIGH")
        /\ Cons(r).sell_votes = 1 /\ Cons(r).buy_votes = 1
        /\ Cons(r).total_sources = 2

\* a truefx entry without an error marker whose tick list is empty
HasEmptyTicks(item) ==
    /\ ~HasErrorMarker(item)
    /\ "signals" \in DOMAIN item.data.v
    /\ "signals" \in DOMAIN item.data.v["signals"].v
    /\ item.data.v["signals"].v["signals"].v = <<>>

\* C14 as stated: a truefx source without an error marker whose tick list
\* is empty yields the default signal NEUTRAL with confidence LOW: the
\* consensus is the one obtained with a tick list of one NEUTRAL entry of
\* confidence LOW, and it counts at least that NEUTRAL vote.
C14_EmptyTicksNeutralLow ==
    \A r \in Requests :
        (HasConsensus(r) /\ HasEmptyTicks(sources[r][4])) =>
            /\ Cons(r).neutral_votes >= 1
            /\ Cons(r).total_sources >= 1
            /\ consensus[r] = calculate_consensus(
                   WithTicks(sources[r], <<SignalsWithConfidence("NEUTRAL", "LOW")>>))

(***************************************************************************)
(* SpecCase: the two functions applied to sources maps whose               *)
(* recommendations are written in upper, lower or capitalised case         *)
(***************************************************************************)
\* the spellings of the three recommendations
CaseVariants ==
    {"BUY", "buy", "Buy", "SELL", "sell", "Sell", "NEUTRAL", "neutral", "Neutral"}

\* a tradingview summary with as many buy as sell indicators
CaseTradingView(rec) == TradingViewPayload(rec, 1, 1)

InitCase ==
    /\ symbol = [r \in {1} |-> "EURUSD"]
    /\ interval = [r \in {1} |-> "15min"]
    /\ \E tv \in {CoreError} \cup {CaseTradingView(rec) : rec \in CaseVariants},
          av \in {CoreError}
                 \cup {PyDict([signals |-> SignalsWithConfidence(rec, "HIGH")]) :
                          rec \in CaseVariants},
          td \in {CoreError}
                 \cup {PyDict([signals |-> SignalsWithConfidence(rec, "LOW")]) :
                          rec \in CaseVariants},
          fx \in {CoreError}
                 \cup {TicksEntry(<<SignalsWithConfidence(rec, "MEDIUM")>>) :
                          rec \in CaseVariants} :
           sources = [r \in {1} |-> SourcesOf(tv, av, td, fx)]
    /\ Start({1}, "consensus")

SpecCase == InitCase /\ [][NextCore]_vars

\* the uppercase form of a spelling
UpperForm(rec) ==
    CASE rec \in {"BUY", "buy", "Buy"}             -> "BUY"
      [] rec \in {"SELL", "sell", "Sell"}          -> "SELL"
      [] rec \in {"NEUTRAL", "neutral", "Neutral"} -> "NEUTRAL"

\* the spelling a source of SpecCase recommends with (none for a source with
\* an error marker)
SpellingOf(item) ==
    {h["recommendation"].v : h \in Holder(item)}

\* a dictionary with its recommendation in uppercase form
UppercasedDict(val) ==
    PyDict([val.v EXCEPT !["recommendation"] = PyStr(UpperForm(@.v))])

\* a source of SpecCase with its recommendation in uppercase form
Uppercased(item) ==
    IF HasErrorMarker(item) THEN item
    ELSE IF item.name = "tradingview"
         THEN [item EXCEPT !.data.v["summary"] = UppercasedDict(@)]
    ELSE IF item.name \in {"alphavantage", "twelvedata"}
         THEN [item EXCEPT !.data.v["signals"] = UppercasedDict(@)]
    ELSE [item EXCEPT !.data.v["signals"].v["signals"].v[1] = UppercasedDict(@)]

\* C15: a recommendation that differs from BUY, SELL or NEUTRAL only in
\* letter case counts, for every provider, as the vote of its uppercase
\* form, and the consensus is the one obtained with the uppercase strings.
C15_CaseInsensitive ==
    \A r \in Requests :
        HasConsensus(r) =>
            LET votes(rec) == Cardinality({i \in 1..Len(sources[r]) :
                                  \E sp \in SpellingOf(sources[r][i]) : UpperForm(sp) = rec})
            IN  /\ Cons(r).buy_votes = votes("BUY")
                /\ Cons(r).sell_votes = votes("SELL")
                /\ Cons(r).neutral_votes = votes("NEUTRAL")
                /\ consensus[r] = calculate_consensus(
                       [i \in 1..Len(sources[r]) |-> Uppercased(sources[r][i])])

\* 'buy', 'Buy', 'BUY' and 'sell' from the four providers: three BUY votes
\* and one SELL vote
C15_Witness ==
    \E r \in Requests :
        /\ HasConsensus(r)
        /\ SpellingOf(sources[r][1]) = {"buy"}
        /\ SpellingOf(sources[r][2]) = {"Buy"}
        /\ SpellingOf(sources[r][3]) = {"BUY"}
        /\ SpellingOf(sources[r][4]) = {"sell"}
        /\ Cons(r).buy_votes = 3 /\ Cons(r).sell_votes = 1
        /\ Cons(r).overall_recommendation = "BUY"

\* a truefx entry whose first tick has neither a recommendation nor a
\* confidence
HasBareFirstTick(item) ==
    /\ Holder(item) # {}
    /\ \A h \in Holder(item) :
          "recommendation" \notin DOMAIN h /\ "confidence" \notin DOMAIN h

\* C14 amended: a truefx source without an error marker whose tick list is
\* empty yields no signal: the consensus is the one obtained with an error
\* marker in its place.  The default signal NEUTRAL with confidence LOW is
\* that of a non-empty tick list whose first entry has neither field.
C14_EmptyTicksAbstain ==
    \A r \in Requests :
        HasConsensus(r) =>
            /\ HasEmptyTicks(sources[r][4]) =>
                  /\ 4 \notin Used(sources[r])
                  /\ consensus[r] = calculate_consensus(
                         [sources[r] EXCEPT ![4].data = CoreError])
            /\ HasBareFirstTick(sources[r][4]) =>
                  /\ Cons(r).neutral_votes >= 1
                  /\ consensus[r] = calculate_consensus(
                         WithTicks(sources[r], <<SignalsWithConfidence("NEUTRAL", "LOW")>>))

\* an empty tick list next to a BUY of tradingview: one vote, none NEUTRAL
C14_Witness ==
    \E r \in Requests :
        /\ HasConsensus(r)
        /\ HasEmptyTicks(sources[r][4])
        /\ 1 \in Used(sources[r])
        /\ Cons(r).total_sources = 1 /\ Cons(r).buy_votes = 1
        /\ Cons(r).neutral_votes = 0

(***************************************************************************)
(* SpecSummary: the two functions applied to sources maps whose entries    *)
(* have or lack the sub-object and the recommendation the summary reads    *)
(***************************************************************************)
SummaryTradingView ==
    {CoreError, EmptyDict, PyDict([summary |-> EmptyDict]),
     TradingViewPayload("BUY", 1, 0), TradingViewPayload("SELL", 0, 1),
     TradingViewPayload("STRONG_BUY", 2, 0)}

SummaryPriceSeries ==
    {CoreError, EmptyDict, PyDict([signals |-> EmptyDict]),
     PyDict([signals |-> SignalsWithConfidence("BUY", "HIGH")]),
     PyDict([signals |-> SignalsWithConfidence("SELL", "LOW")]),
     PyDict([signals |-> SignalsWithoutConfidence("NEUTRAL")])}

SummaryTrueFX ==
    {CoreError, EmptyDict, TicksEntry(<<>>), TicksEntry(<<BareTick>>),
     TicksEntry(<<SignalsWithConfidence("NEUTRAL", "LOW")>>),
     TicksEntry(<<SignalsWithConfidence("NEUTRAL", "MEDIUM")>>),
     TicksEntry(<<SignalsWithConfidence("NEUTRAL", "MEDIUM"),
                  SignalsWithConfidence("BUY", "HIGH")>>),
     TicksEntry(<<SignalsWithConfidence("BUY", "HIGH")>>),
     PyDict([signals |-> SignalsWithConfidence("BUY", "HIGH")]),
     TradingViewPayload("BUY", 1, 0)}

InitSummary ==
    /\ symbol = [r \in {1} |-> "EURUSD"]
    /\ interval = [r \in {1} |-> "15min"]
    /\ \E tv \in SummaryTradingView, av \in SummaryPriceSeries,
          td \in SummaryPriceSeries, fx \in SummaryTrueFX :
           sources = [r \in {1} |-> SourcesOf(tv, av, td, fx)]
    /\ Start({1}, "consensus")

SpecSummary == InitSummary /\ [][NextCore]_vars

\* the summary of request r has been rendered
HasSummary(r) == summary[r].status = "returned"

\* the four fragments the consensus of request r is to give, in order
ConsensusFragments(r) ==
    << "Consensus Recommendation: " \o Cons(r).overall_recommendation,
       "Agreement Level: " \o Cons(r).agreement_level,
       "Votes - BUY: " \o ToString(Cons(r).buy_votes)
           \o ", SELL: " \o ToString(Cons(r).sell_votes)
           \o ", NEUTRAL: " \o ToString(Cons(r).neutral_votes),
       "Average Confidence: " \o Cons(r).average_confidence >>

\* what a per-provider fragment may show
FragmentLabels == {"BUY", "SELL", "NEUTRAL", "STRONG_BUY", "N/A"}

\* no fragment, or one fragment with the given display name
OptionalFragment(display) ==
    {<<>>} \cup {<<display \o ": " \o label>> : label \in FragmentLabels}

\* C16: the summary is the ' | '-joined concatenation of the four consensus
\* fragments (recommendation, agreement level, votes, average confidence,
\* with the values of the consensus, present for every input) followed by
\* the per-provider fragments in the order tradingview, alphavantage,
\* twelvedata.
C16_SummaryOrder ==
    \A r \in Requests :
        /\ HasConsensus(r) /\ pc[r] # "summary" => HasSummary(r)
        /\ HasSummary(r) =>
              \E tv \in OptionalFragment("TradingView"),
                 av \in OptionalFragment("Alphavantage"),
                 td \in OptionalFragment("Twelvedata") :
                  summary[r].value = Join(ConsensusFragments(r) \o tv \o av \o td)

\* a summary with the fragments of the three providers
C16_Witness ==
    \E r \in Requests :
        /\ HasSummary(r)
        /\ summary[r].value =
              "Consensus Recommendation: NEUTRAL | Agreement Level: MIXED_SIGNALS"
              \o " | Votes - BUY: 1, SELL: 1, NEUTRAL: 1 | Average Confidence: MEDIUM"
              \o " | TradingView: BUY | Alphavantage: SELL | Twelvedata: NEUTRAL"
        /\ HasErrorMarker(sources[r][4])

\* the name a provider's fragment starts with
DisplayName(source_name) ==
    CASE source_name = "tradingview"  -> "TradingView"
      [] source_name = "alphavantage" -> "Alphavantage"
      [] source_name = "twelvedata"   -> "Twelvedata"

\* positions of the providers the summary lists
ListedPositions == {1, 2, 3}

\* the fragment of a provider that yielded a signal, none for another
SignalFragment(items, i) ==
    IF i \in Used(items)
    THEN <<DisplayName(items[i].name) \o ": "
             \o (CHOOSE h \in Holder(items[i]) : TRUE)["recommendation"].v>>
    ELSE <<>>

\* C17 as stated: the summary has a per-provider fragment exactly for the
\* providers among tradingview, alphavantage and twelvedata that yielded a
\* signal; a provider with an error marker or without an extracted
\* recommendation has none, so there are at most total_sources of them.
C17_FragmentPerSignal ==
    \A r \in Requests :
        HasSummary(r) =>
            /\ summary[r].value =
                  Join(ConsensusFragments(r) \o SignalFragment(sources[r], 1)
                       \o SignalFragment(sources[r], 2) \o SignalFragment(sources[r], 3))
            /\ Cardinality({i \in ListedPositions : SignalFragment(sources[r], i) # <<>>})
                  <= Cons(r).total_sources

\* the fragment of a provider without an error marker whose sub-object
\* ('summary' or 'signals') is present: its recommendation, or N/A
SubObjectFragment(items, i) ==
    IF Holder(items[i]) # {}
    THEN LET h == CHOOSE g \in Holder(items[i]) : TRUE IN
         <<DisplayName(items[i].name) \o ": "
             \o (IF "recommendation" \in DOMAIN h THEN h["recommendation"].v ELSE "N/A")>>
    ELSE <<>>

\* C17 amended: the summary has a per-provider fragment exactly for the
\* providers among tradingview, alphavantage and twelvedata that have no
\* error marker and whose 'summary' or 'signals' sub-object is present; the
\* fragment shows the recommendation of the sub-object, or N/A when it has
\* none.  A provider with an error marker or without its sub-object has no
\* fragment.
C17_FragmentPerSubObject ==
    \A r \in Requests :
        HasSummary(r) =>
            /\ summary[r].value =
                  Join(ConsensusFragments(r) \o SubObjectFragment(sources[r], 1)
                       \o SubObjectFragment(sources[r], 2) \o SubObjectFragment(sources[r], 3))
            /\ \A i \in ListedPositions :
                  (HasErrorMarker(sources[r][i]) \/ sources[r][i].data = EmptyDict)
                      => SubObjectFragment(sources[r], i) = <<>>

\* alphavantage has a 'signals' sub-object without a recommendation and no
\* source yields a signal: the summary has one fragment, total_sources is 0
C17_Witness ==
    \E r \in Requests :
        /\ HasSummary(r)
        /\ HasErrorMarker(sources[r][1])
        /\ sources[r][2].data = PyDict([signals |-> EmptyDict])
        /\ sources[r][3].data = EmptyDict
        /\ Cons(r).total_sources = 0
        /\ summary[r].value =
              "Consensus Recommendation: NEUTRAL | Agreement Level: NO_DATA"
              \o " | Votes - BUY: 0, SELL: 0, NEUTRAL: 0 | Average Confidence: LOW"
              \o " | Alphavantage: N/A"

\* the sources map with another truefx entry
WithTrueFX(items, fx) == [items EXCEPT ![4].data = fx]

\* C18: the truefx source never produces a fragment, whatever its content
\* and even when its signal is counted: the summary is the one rendered
\* with an error marker in place of the truefx entry, and it is the same for
\* every truefx entry that gives the same consensus.
C18_NoTrueFXFragment ==
    \A r \in Requests :
        HasSummary(r) =>
            /\ generate_summary(WithTrueFX(sources[r], CoreError), Cons(r)) = summary[r]
            /\ \A fx \in SummaryTrueFX :
                  calculate_consensus(WithTrueFX(sources[r], fx)) = consensus[r]
                      => generate_summary(WithTrueFX(sources[r], fx), Cons(r)) = summary[r]

\* truefx is the only source and its BUY is counted: the summary has the
\* four consensus fragments and nothing else
C18_Witness ==
    \E r \in Requests :
        /\ HasSummary(r)
        /\ 4 \in Used(sources[r])
        /\ \A i \in ListedPositions : HasErrorMarker(sources[r][i])
        /\ Cons(r).buy_votes = 1
        /\ summary[r].value =
              "Consensus Recommendation: BUY | Agreement Level: SINGLE_SOURCE"
              \o " | Votes - BUY: 1, SELL: 0, NEUTRAL: 0 | Average Confidence: HIGH"

\* request r has returned its envelope
HasEnvelope(r) == pc[r] \in {"done", "responded"} /\ result[r].status = "returned"
Envelope(r) == result[r].value

\* the sources map the adapter calls of request r produced
Collected(r) ==
    [i \in 1..Len(calls[r]) |-> [name |-> calls[r][i].name, data |-> EntryOf(calls[r][i])]]

\* C19: the envelope get returns has the request symbol in uppercase, the
\* request interval unchanged, the sources map collected from the four
\* adapters, the consensus _calculate_consensus gives for that map and the
\* summary _generate_summary gives for that map and that consensus; the
\* votes and levels the summary shows are those of the consensus returned.
C19_Envelope ==
    \A r \in Requests :
        HasEnvelope(r) =>
            /\ Envelope(r).symbol \in {"EURUSD", "XAUUSD"}
            /\ symbol[r] \in {"EURUSD", "eurusd"} => Envelope(r).symbol = "EURUSD"
            /\ symbol[r] = "XAUUSD" => Envelope(r).symbol = "XAUUSD"
            /\ Envelope(r).interval = interval[r]
            /\ Len(calls[r]) = 4
            /\ Envelope(r).sources = Collected(r)
            /\ Returned(Envelope(r).consensus) = calculate_consensus(Collected(r))
            /\ Returned(Envelope(r).summary) =
                  generate_summary(Collected(r), Envelope(r).consensus)
            /\ Envelope(r).consensus = Cons(r)
            /\ \E tv \in OptionalFragment("TradingView"),
                  av \in OptionalFragment("Alphavantage"),
                  td \in OptionalFragment("Twelvedata") :
                   Envelope(r).summary = Join(ConsensusFragments(r) \o tv \o av \o td)

\* the envelope of a request for 'eurusd' at interval 1hour in which two
\* adapters answered and two raised
C19_Witness ==
    \E r \in Requests :
        /\ HasEnvelope(r)
        /\ symbol[r] = "eurusd" /\ Envelope(r).symbol = "EURUSD"
        /\ Envelope(r).interval = "1hour"
        /\ calls[r][1].outcome.status = "returned"
        /\ calls[r][2].outcome.status = "raised"
        /\ calls[r][3].outcome.status = "raised"
        /\ calls[r][4].outcome.status = "returned"
        /\ Envelope(r).consensus.total_sources = 2

\* the response of request r has been marshalled
HasResponse(r) == response[r].status = "returned"

\* C20: the response as serialized preserves every field of the envelope
\* get built: it has symbol, timestamp, interval, sources, consensus and
\* summary, its consensus has the seven fields, total_sources included, and
\* each has the value computed by get.
C20_ResponsePreservesFields ==
    \A r \in Requests :
        HasResponse(r) =>
            LET out == response[r].value
                built == result[r].value
            IN  /\ DOMAIN out = {"symbol", "timestamp", "interval", "sources",
                                 "consensus", "summary"}
                /\ DOMAIN out.consensus =
                      {"overall_recommendation", "buy_votes", "sell_votes",
                       "neutral_votes", "total_sources", "average_confidence",
                       "agreement_level"}
                /\ out = built

\* the number of adapter calls get has made when it stands at a position
CallsMadeAt(at) ==
    IF \E k \in 1..Len(Providers) : Providers[k] = at
    THEN (CHOOSE k \in 1..Len(Providers) : Providers[k] = at) - 1
    ELSE Len(Providers)

OrderTradingView ==
    {CoreError, TradingViewPayload("BUY", 2, 1), TradingViewPayload("SELL", 1, 1)}
OrderAlphaVantage ==
    {CoreError,
     PriceSeriesPayload("Alpha Vantage", SignalsWithConfidence("BUY", "MEDIUM")),
     PriceSeriesPayload("Alpha Vantage", SignalsWithConfidence("NEUTRAL", "LOW"))}
OrderTwelveData ==
    {CoreError,
     PriceSeriesPayload("Twelve Data", SignalsWithConfidence("SELL", "HIGH")),
     PriceSeriesPayload("Twelve Data", SignalsWithoutConfidence("NEUTRAL"))}
OrderTrueFX ==
    {CoreError,
     TrueFXPayload(<<SignalsWithConfidence("NEUTRAL", "MEDIUM")>>),
     TrueFXPayload(<<SignalsWithConfidence("BUY", "HIGH")>>)}

\* the dict obtained by inserting the entries of items in the order order
InsertedInOrder(items, order) == [i \in 1..Len(items) |-> items[order[i]]]

InitOrder ==
    /\ symbol = [r \in {1} |-> "EURUSD"]
    /\ interval = [r \in {1} |-> "15min"]
    /\ \E tv \in OrderTradingView, av \in OrderAlphaVantage,
          td \in OrderTwelveData, fx \in OrderTrueFX,
          order \in Permutations(1..4) :
           sources = [r \in {1} |-> InsertedInOrder(SourcesOf(tv, av, td, fx), order)]
    /\ Start({1}, "consensus")

SpecOrder == InitOrder /\ [][NextCore]_vars

\* the entry of a provider in a sources map
EntryFor(items, name) ==
    items[CHOOSE i \in 1..Len(items) : items[i].name = name]

\* the entries of a sources map in the order in which get inserts them
InGetOrder(items) == [i \in 1..Len(Providers) |-> EntryFor(items, Providers[i])]

\* C23: the consensus does not depend on the insertion order of the four
\* provider entries: for every permutation of the order, the seven fields
\* _calculate_consensus returns are those it returns for the same entries
\* inserted in the order tradingview, alphavantage, twelvedata, truefx.
C23_OrderIndependent ==
    \A r \in Requests :
        consensus[r] # Pending =>
            /\ HasConsensus(r)
            /\ DOMAIN Cons(r) = {"overall_recommendation", "buy_votes", "sell_votes",
                                 "neutral_votes", "total_sources", "average_confidence",
                                 "agreement_level"}
            /\ consensus[r] = calculate_consensus(InGetOrder(sources[r]))

\* a consensus over three signals computed from a map in which truefx was
\* inserted first and an entry with an error marker second
C23_Witness ==
    \E r \in Requests :
        /\ HasConsensus(r)
        /\ sources[r][1].name = "truefx"
        /\ HasErrorMarker(sources[r][2])
        /\ sources[r][4].name = "tradingview"
        /\ Cons(r).total_sources = 3
        /\ Cons(r).buy_votes = 2

(***************************************************************************)
(* SpecPair: two requests served by get, their steps interleaved           *)
(***************************************************************************)
\* what the call of an adapter can do for a request of the pair
PairOutcomes(name, sym) ==
    CASE name = "tradingview" ->
           {Returned(TradingViewPayload("BUY", 2, 1)),
            Returned(TradingViewPayload("SELL", 1, 2)), Raised("timed out")}
      [] name = "alphavantage" ->
           {Returned(PriceSeriesPayload("Alpha Vantage",
                                        SignalsWithConfidence("BUY", "MEDIUM"))),
            Returned(AdapterError("Alpha Vantage", "API rate limit exceeded"))}
      [] name = "twelvedata" ->
           {Returned(PriceSeriesPayload("Twelve Data",
                                        SignalsWithConfidence("SELL", "HIGH"))),
            Raised("connection refused")}
      [] name = "truefx" -> {Returned(d) : d \in TrueFXReturns(sym)}

\* the position of get after the try/except block of a provider
After(name) ==
    CASE name = "tradingview"  -> "alphavantage"
      [] name = "alphavantage" -> "twelvedata"
      [] name = "twelvedata"   -> "truefx"
      [] name = "truefx"       -> "consensus"

\* the try/except block of request r that stands next
FetchNext(r) ==
    \E k \in 1..Len(Providers) :
        \E o \in PairOutcomes(Providers[k], symbol[r]) :
            TryFetch(r, Providers[k], After(Providers[k]), o)

InitPair ==
    /\ symbol = (1 :> "EURUSD" @@ 2 :> "XAUUSD")
    /\ interval = (1 :> "15min" @@ 2 :> "1hour")
    /\ sources = [r \in {1, 2} |-> <<>>]
    /\ Start({1, 2}, "tradingview")

NextPair ==
    \/ \E r \in Requests : FetchNext(r)
    \/ \E r \in Requests : CallCalculateConsensus(r)
    \/ \E r \in Requests : CallGenerateSummary(r)
    \/ \E r \in Requests : Return(r)
    \/ \E r \in Requests : Marshal(r)

SpecPair == InitPair /\ [][NextPair]_vars

\* the state of request r is the one get reaches alone after the adapter
\* calls r has made, whatever the other request has done
RunsAsAlone(r) ==
    /\ Len(calls[r]) = CallsMadeAt(pc[r])
    /\ sources[r] = Collected(r)
    /\ consensus[r] = IF pc[r] \in {"summary", "return", "done", "responded"}
                      THEN calculate_consensus(Collected(r)) ELSE Pending
    /\ summary[r] = IF pc[r] \in {"return", "done", "responded"}
                    THEN generate_summary(Collected(r), calculate_consensus(Collected(r)).value)
                    ELSE Pending
    /\ HasEnvelope(r) =>
          /\ Envelope(r).symbol = PyUpper(symbol[r])
          /\ Envelope(r).interval = interval[r]
          /\ Envelope(r).sources = Collected(r)
          /\ Returned(Envelope(r).consensus) = consensus[r]
          /\ Returned(Envelope(r).summary) = summary[r]

\* the variables of request r
StateOf(r) ==
    <<pc[r], sources[r], consensus[r], summary[r], result[r], response[r], calls[r]>>

\* a step changes the variables of one request only
OwnStateOnly ==
    \E r \in Requests :
        \A q \in Requests \ {r} : StateOf(q)' = StateOf(q)

\* C24: when the steps of two requests are interleaved in any order, the
\* sources, consensus and summary of each request are those of a run alone
\* with the same adapter results, and no step of a request changes the
\* sources map or any other variable of the other request.
C24_RequestsIsolated ==
    /\ [](\A r \in Requests : RunsAsAlone(r))
    /\ [][OwnStateOnly]_vars

\* request 2 has finished with two entries from adapters that raised while
\* request 1, with different entries, is between its second and third call
C24_Witness ==
    /\ Requests = {1, 2}
    /\ pc[1] = "twelvedata" /\ pc[2] = "responded"
    /\ calls[1][1].outcome.status = "returned"
    /\ calls[2][1].outcome.status = "raised"
    /\ calls[2][3].outcome.status = "raised"
    /\ Cons(2).total_sources = 1
    /\ sources[1] # SubSeq(sources[2], 1, 2)

(***************************************************************************)
(* SpecConfidence: _calculate_consensus applied to signals whose           *)
(* confidence is any hashable value                                        *)
(***************************************************************************)
StandardConfidences == {LOW, MEDIUM, HIGH}

\* confidence values that are not keys of confidence_map
OddConfidences ==
    {PyStr("high"), PyStr("Medium"), PyStr("VERY_HIGH"), PyStr(""), PyNone, PyNum(3)}

ConfidenceSignals ==
    {PyDict([recommendation |-> PyStr(rec), confidence |-> conf]) :
        rec \in {"BUY", "SELL"}, conf \in StandardConfidences \cup OddConfidences}

InitConfidence ==
    /\ symbol = [r \in {1} |-> "EURUSD"]
    /\ interval = [r \in {1} |-> "15min"]
    /\ \E tv \in {CoreError, TradingViewPayload("BUY", 2, 1)},
          av \in {CoreError} \cup {PyDict([signals |-> g]) : g \in ConfidenceSignals},
          td \in {CoreError} \cup {PyDict([signals |-> g]) : g \in ConfidenceSignals},
          fx \in {CoreError} \cup {PyDict([signals |-> PyDict([signals |-> PyList(<<g>>)])]) :
                                     g \in ConfidenceSignals} :
           sources = [r \in {1} |-> SourcesOf(tv, av, td, fx)]
    /\ Start({1}, "consensus")

SpecConfidence == InitConfidence /\ [][NextCore]_vars

\* the signal dictionary with 'LOW' in place of a confidence that is not
\* one of the three levels
OddAsLow(g) ==
    IF g.v["confidence"] \in StandardConfidences THEN g
    ELSE PyDict([g.v EXCEPT !["confidence"] = LOW])

\* the entry with 'LOW' in place of such a confidence
EntryWithOddAsLow(item) ==
    IF HasErrorMarker(item) \/ item.name = "tradingview" THEN item
    ELSE IF item.name = "truefx"
    THEN [item EXCEPT !.data = PyDict([signals |-> PyDict([signals |->
              PyList(<<OddAsLow(item.data.v["signals"].v["signals"].v[1])>>)])])]
    ELSE [item EXCEPT !.data = PyDict([signals |-> OddAsLow(item.data.v["signals"])])]

WithOddAsLow(items) == [i \in 1..Len(items) |-> EntryWithOddAsLow(items[i])]

\* C26: a confidence that is not exactly 'LOW', 'MEDIUM' or 'HIGH' is
\* neither normalized nor rejected: its signal is kept as a vote and weighs
\* 1, as LOW does, so the consensus is the one computed with 'LOW' in its
\* place, one vote per non-error entry, and average_confidence is always
\* one of LOW, MEDIUM, HIGH.
C26_OddConfidenceAsLow ==
    \A r \in Requests :
        consensus[r] # Pending =>
            /\ HasConsensus(r)
            /\ consensus[r] = calculate_consensus(WithOddAsLow(sources[r]))
            /\ Cons(r).total_sources =
                  Cardinality({i \in 1..Len(sources[r]) : ~HasErrorMarker(sources[r][i])})
            /\ Cons(r).average_confidence \in {"LOW", "MEDIUM", "HIGH"}

\* two votes, one with confidence 'high' and one with confidence 'HIGH',
\* whose average is MEDIUM
C26_Witness ==
    \E r \in Requests :
        /\ HasConsensus(r)
        /\ HasErrorMarker(sources[r][1]) /\ HasErrorMarker(sources[r][4])
        /\ ~HasErrorMarker(sources[r][2]) /\ ~HasErrorMarker(sources[r][3])
        /\ sources[r][2].data.v["signals"].v["confidence"] = PyStr("high")
        /\ sources[r][3].data.v["signals"].v["confidence"] = HIGH
        /\ Cons(r).total_sources = 2
        /\ Cons(r).average_confidence = "MEDIUM"

\* the vote counts of a consensus, by category
VotesOf(c) ==
    [cat \in Recognized |->
        CASE cat = "BUY" -> c.buy_votes
          [] cat = "SELL" -> c.sell_votes
          [] cat = "NEUTRAL" -> c.neutral_votes]

\* cat is the only category with the highest vote count
UniqueLeader(c, cat) == \A other \in Recognized \ {cat} : VotesOf(c)[cat] > VotesOf(c)[other]

\* the entries of a sources map without an error marker
Answered(items) == {i \in 1..Len(items) : ~HasErrorMarker(items[i])}

\* C27: when every used recommendation is BUY, SELL or NEUTRAL (in any
\* case), STRONG_AGREEMENT implies that overall_recommendation is the only
\* category with the highest vote count; an overall BUY or SELL has at
\* least one vote and strictly more than each other category; an overall
\* NEUTRAL without a neutral vote occurs only when buy_votes = sell_votes.
C27_LeaderConsistent ==
    \A r \in Requests :
        HasConsensus(r) =>
            LET c == Cons(r) IN
            /\ c.overall_recommendation \in Recognized
            /\ c.buy_votes + c.sell_votes + c.neutral_votes = c.total_sources
            /\ c.agreement_level = "STRONG_AGREEMENT" =>
                  UniqueLeader(c, c.overall_recommendation)
            /\ c.overall_recommendation \in {"BUY", "SELL"} =>
                  /\ VotesOf(c)[c.overall_recommendation] >= 1
                  /\ UniqueLeader(c, c.overall_recommendation)
            /\ (c.overall_recommendation = "NEUTRAL" /\ c.neutral_votes = 0) =>
                  c.buy_votes = c.sell_votes

\* two votes for BUY and two for SELL: NEUTRAL overall without a neutral
\* vote, and no strong agreement
C27_Witness ==
    \E r \in Requests :
        /\ HasConsensus(r)
        /\ Cons(r).buy_votes = 2 /\ Cons(r).sell_votes = 2 /\ Cons(r).neutral_votes = 0
        /\ Cons(r).overall_recommendation = "NEUTRAL"
        /\ Cons(r).agreement_level = "MODERATE_AGREEMENT"

\* C28: with the four providers and every used recommendation BUY, SELL or
\* NEUTRAL (in any case), agreement_level is MIXED_SIGNALS if and only if
\* exactly three sources yield a signal and the votes are 1 BUY, 1 SELL and
\* 1 NEUTRAL; with two or four used signals it is MODERATE_AGREEMENT or
\* STRONG_AGREEMENT.
C28_MixedOnlyThreeWay ==
    \A r \in Requests :
        HasConsensus(r) =>
            LET c == Cons(r) IN
            /\ c.total_sources = Cardinality(Answered(sources[r]))
            /\ c.agreement_level = "MIXED_SIGNALS" <=>
                  /\ Cardinality(Answered(sources[r])) = 3
                  /\ c.buy_votes = 1 /\ c.sell_votes = 1 /\ c.neutral_votes = 1
            /\ c.total_sources \in {2, 4} =>
                  c.agreement_level \in {"MODERATE_AGREEMENT", "STRONG_AGREEMENT"}

\* a three-way split of three signals, the fourth provider in error
C28_Witness ==
    \E r \in Requests :
        /\ HasConsensus(r)
        /\ Cardinality(Answered(sources[r])) = 3
        /\ HasErrorMarker(sources[r][2])
        /\ Cons(r).buy_votes = 1 /\ Cons(r).sell_votes = 1 /\ Cons(r).neutral_votes = 1
        /\ Cons(r).agreement_level = "MIXED_SIGNALS"

(***************************************************************************)
(* The adapters of the repository.  What the provider does when it is      *)
(* asked is a value w, the 'world' of the call: the request fails, or the  *)
(* provider answers with one of the payloads the adapter distinguishes.    *)
(***************************************************************************)
\* window lengths of the moving averages
SMA_SHORT == 20
SMA_LONG == 50

\* an except clause that catches the failures of the HTTP request only
ExceptException_RequestOnly(source, body) ==
    IF body.status = "raised" /\ body.exc \in Messages
    THEN Returned(AdapterError(source, body.exc))
    ELSE body

\* try: body / except Exception as e: return {'source': .., 'error': str(e)}
ExceptException(source, body) ==
    IF body.status = "raised"
    THEN Returned(AdapterError(source, body.exc))
    ELSE body

\* a data point as both price-series adapters build it; a field the
\* provider leaves out is read as 0
Point(close) ==
    [close |-> close,
     high |-> IF close > 0 THEN close + 1 ELSE 0,
     low |-> IF close > 0 THEN close - 1 ELSE 0]

\* data_points as stored in the payload
PyPoints(data_points) ==
    PyList([i \in 1..Len(data_points) |->
               PyDict([close |-> PyNum(data_points[i].close),
                       high |-> PyNum(data_points[i].high),
                       low |-> PyNum(data_points[i].low)])])

\* sum(point['close'] for point in data_points[:n])
RECURSIVE SumClose(_, _)
SumClose(data_points, n) ==
    IF n = 0 THEN 0 ELSE data_points[n].close + SumClose(data_points, n - 1)

\* price_change_percent > 0.1 and price_change_percent < -0.1, where
\* price_change_percent = (latest - previous) / previous * 100 for a
\* positive previous close and 0 otherwise
MomentumUp(latest, previous) ==
    previous > 0 /\ (latest - previous) * 1000 > previous
MomentumDown(latest, previous) ==
    previous > 0 /\ (latest - previous) * 1000 < -previous

\* the first if/elif/else of AlphaVantageService._generate_intraday_signals
\* and factor 1 of TwelveDataService._generate_signals_from_timeseries
Momentum(latest, previous) ==
    IF MomentumUp(latest, previous) THEN <<"BUY", "MEDIUM">>
    ELSE IF MomentumDown(latest, previous) THEN <<"SELL", "MEDIUM">>
    ELSE <<"NEUTRAL", "LOW">>

\* a moving-average step that changes the recommendation only
IntradaySignal_KeepConfidence(data_points) ==
    LET current_price == data_points[1].close
        first == Momentum(current_price, data_points[2].close)
        total == SumClose(data_points, SMA_SHORT)
    IN  IF Len(data_points) >= SMA_SHORT /\ SMA_SHORT * current_price > total
        THEN <<"BUY", first[2]>>
        ELSE IF Len(data_points) >= SMA_SHORT /\ SMA_SHORT * current_price < total
        THEN <<"SELL", first[2]>>
        ELSE first

\* (recommendation, confidence) of AlphaVantageService.
\* _generate_intraday_signals for two data points or more
IntradaySignal(data_points) ==
    LET current_price == data_points[1].close
        first == Momentum(current_price, data_points[2].close)
    IN  IF Len(data_points) >= SMA_SHORT
        THEN LET total == SumClose(data_points, SMA_SHORT) IN
             IF SMA_SHORT * current_price > total THEN <<"BUY", "HIGH">>
             ELSE IF SMA_SHORT * current_price < total THEN <<"SELL", "HIGH">>
             ELSE first
        ELSE first

\* AlphaVantageService._generate_intraday_signals(data_points)
generate_intraday_signals(data_points) ==
    IF Len(data_points) < 2 THEN SignalsWithoutConfidence("NEUTRAL")
    ELSE LET s == IntradaySignal(data_points) IN SignalsWithConfidence(s[1], s[2])

\* max and min of a field over data_points[:20]
Resistance(data_points) ==
    LET n == IF Len(data_points) < SMA_SHORT THEN Len(data_points) ELSE SMA_SHORT
    IN  CHOOSE h \in {data_points[i].high : i \in 1..n} :
            \A i \in 1..n : data_points[i].high <= h
Support(data_points) ==
    LET n == IF Len(data_points) < SMA_SHORT THEN Len(data_points) ELSE SMA_SHORT
    IN  CHOOSE l \in {data_points[i].low : i \in 1..n} :
            \A i \in 1..n : data_points[i].low >= l

\* factor 2: 'if sma_20 and sma_50' holds for two averages that exist and
\* are not 0; +1 for close > sma_20 > sma_50, -1 for close < sma_20 < sma_50
Crossover(data_points) ==
    IF Len(data_points) < SMA_LONG THEN 0
    ELSE LET close == data_points[1].close
             short == SumClose(data_points, SMA_SHORT)
             long == SumClose(data_points, SMA_LONG)
         IN  IF short = 0 \/ long = 0 THEN 0
             ELSE IF SMA_SHORT * close > short /\ SMA_LONG * short > SMA_SHORT * long
             THEN 1
             ELSE IF SMA_SHORT * close < short /\ SMA_LONG * short < SMA_SHORT * long
             THEN -1
             ELSE 0

\* factor 3: resistance and support are not 0 and the close is above their
\* midpoint
AboveMidpoint(data_points) ==
    LET resistance == Resistance(data_points)
        support == Support(data_points)
    IN  /\ resistance # 0 /\ support # 0
        /\ 2 * data_points[1].close > resistance + support

\* (recommendation, confidence) of TwelveDataService.
\* _generate_signals_from_timeseries for two data points or more
TimeSeriesSignal(data_points) ==
    LET first == Momentum(data_points[1].close, data_points[2].close)
        second == CASE Crossover(data_points) = 1  -> <<"BUY", "HIGH">>
                    [] Crossover(data_points) = -1 -> <<"SELL", "HIGH">>
                    [] OTHER                       -> first
    IN  IF AboveMidpoint(data_points) /\ second[1] = "NEUTRAL"
        THEN <<"BUY", "MEDIUM">>
        ELSE second

\* TwelveDataService._generate_signals_from_timeseries(data_points)
generate_signals_from_timeseries(data_points) ==
    IF Len(data_points) < 2 THEN SignalsWithoutConfidence("NEUTRAL")
    ELSE LET s == TimeSeriesSignal(data_points) IN SignalsWithConfidence(s[1], s[2])

\* the first n entries of a list, data_points[:n]
Prefix(data_points, n) ==
    IF Len(data_points) <= n THEN data_points ELSE SubSeq(data_points, 1, n)

\* TradingViewService.get_signals(symbol, interval)
get_signals(sym, w) ==
    ExceptException("TradingView TA",
        IF w.kind = "raises" THEN Raised(w.message)
        ELSE Returned(TradingViewPayload(w.recommendation, w.buy, w.sell)))

\* AlphaVantageService.get_intraday_data(symbol, interval); w.data_points
\* is the time series, most recent first
get_intraday_data(sym, w) ==
    ExceptException("Alpha Vantage",
        IF Len(sym) # 6
        THEN Returned(AdapterError("Alpha Vantage",
                                   "Invalid symbol format. Expected format: EURUSD"))
        ELSE CASE w.kind = "raises" -> Raised(w.message)
               [] w.kind = "error"  -> Returned(AdapterError("Alpha Vantage", w.message))
               [] w.kind = "note"   ->
                    Returned(AdapterError("Alpha Vantage", "API rate limit exceeded"))
               [] w.kind = "malformed" -> Raised("could not convert string to float")
               [] w.kind = "series" ->
                    Returned(PyDict([source |-> PyStr("Alpha Vantage"),
                                     data_points |-> PyPoints(Prefix(w.data_points, 50)),
                                     signals |-> generate_intraday_signals(w.data_points)]))
               [] OTHER ->
                    Returned(AdapterError("Alpha Vantage", "Unexpected response format")))

\* TwelveDataService.get_time_series(symbol, interval, 100)
get_time_series(sym, w) ==
    ExceptException("Twelve Data",
        CASE w.kind = "raises" -> Raised(w.message)
          [] w.kind = "error"  -> Returned(AdapterError("Twelve Data", w.message))
          [] w.kind = "malformed" -> Raised("could not convert string to float")
          [] w.kind = "series" ->
               Returned(PyDict([source |-> PyStr("Twelve Data"),
                                data_points |-> PyPoints(w.data_points),
                                signals |->
                                    generate_signals_from_timeseries(w.data_points)]))
          [] OTHER ->
               Returned(AdapterError("Twelve Data", "Unexpected response format")))

\* TrueFXService.get_intraday_signals(symbol)
get_intraday_signals(sym) ==
    ExceptException("TrueFX",
        IF format_symbol(sym) \notin AVAILABLE_PAIRS
        THEN Returned(AdapterError("TrueFX",
                                   "Pair " \o format_symbol(sym) \o " not available"))
        ELSE Returned(TrueFXPayload(TimeSlotSignals)))

(***************************************************************************)
(* SpecAdapters: one request served by get with the adapters of the        *)
(* repository                                                              *)
(***************************************************************************)
\* a symbol of seven characters besides those of Spec
AdapterSymbols == Symbols \cup {"EURUSDT"}

\* handler.get_analysis() raises, or gives a summary
TradingViewWorlds ==
    {[kind |-> "raises", message |-> "timed out"]}
    \cup {[kind |-> "analysis", recommendation |-> rec, buy |-> 2, sell |-> 1] :
            rec \in {"BUY", "STRONG_BUY", "SELL", "NEUTRAL"}}

\* latest and previous close, then the same close n - 2 times
SeriesOf(latest, previous, rest, n) ==
    [i \in 1..n |-> Point(IF i = 1 THEN latest ELSE IF i = 2 THEN previous ELSE rest)]

SampleSeries ==
    {<<>>, SeriesOf(1002, 1000, 1000, 2), SeriesOf(1000, 1002, 1000, 3),
     SeriesOf(1000, 1000, 1000, 20)}

\* the HTTP request fails, or the provider sends an error message, a
\* rate-limit note, a time series with unreadable numbers, a time series,
\* or something else
AlphaVantageWorlds ==
    {[kind |-> "raises", message |-> "timed out"],
     [kind |-> "error", message |-> "Invalid API call"],
     [kind |-> "note"], [kind |-> "malformed"], [kind |-> "other"]}
    \cup {[kind |-> "series", data_points |-> s] : s \in SampleSeries}

TwelveDataWorlds ==
    {[kind |-> "raises", message |-> "connection refused"],
     [kind |-> "error", message |-> "symbol not found"],
     [kind |-> "malformed"], [kind |-> "other"]}
    \cup {[kind |-> "series", data_points |-> s] : s \in SampleSeries}

CallTradingView(r) ==
    \E w \in TradingViewWorlds :
        TryFetch(r, "tradingview", "alphavantage", get_signals(symbol[r], w))

CallAlphaVantage(r) ==
    \E w \in AlphaVantageWorlds :
        TryFetch(r, "alphavantage", "twelvedata", get_intraday_data(symbol[r], w))

CallTwelveData(r) ==
    \E w \in TwelveDataWorlds :
        TryFetch(r, "twelvedata", "truefx", get_time_series(symbol[r], w))

CallTrueFX(r) ==
    TryFetch(r, "truefx", "consensus", get_intraday_signals(symbol[r]))

InitAdapters ==
    /\ symbol \in [{1} -> AdapterSymbols]
    /\ interval \in [{1} -> Intervals]
    /\ sources = [r \in {1} |-> <<>>]
    /\ Start({1}, "tradingview")

NextAdapters ==
    \/ \E r \in Requests : CallTradingView(r)
    \/ \E r \in Requests : CallAlphaVantage(r)
    \/ \E r \in Requests : CallTwelveData(r)
    \/ \E r \in Requests : CallTrueFX(r)
    \/ \E r \in Requests : CallCalculateConsensus(r)
    \/ \E r \in Requests : CallGenerateSummary(r)
    \/ \E r \in Requests : Return(r)
    \/ \E r \in Requests : Marshal(r)

SpecAdapters == InitAdapters /\ [][NextAdapters]_vars

\* the adapter returned a dictionary with a top-level 'error' key
IsErrorDict(outcome) ==
    /\ outcome.status = "returned"
    /\ outcome.value.k = "dict"
    /\ "error" \in DOMAIN outcome.value.v

NoErrorMarker(item) == ~HasErrorMarker(item)

\* C25: called with a string symbol, the four adapters never raise; on a
\* failed request, a provider error payload, a rate-limit note, an
\* unexpected or unreadable response, a symbol not of length 6 (Alpha
\* Vantage) or a pair not in AVAILABLE_PAIRS (TrueFX) the adapter returns a
\* dictionary with a top-level 'error' key, and the consensus is the one of
\* the entries without such a key.
C25_AdaptersNeverRaise ==
    \A r \in Requests :
        /\ pc[r] # "failed"
        /\ \A i \in 1..Len(calls[r]) :
              /\ calls[r][i].outcome.status = "returned"
              /\ calls[r][i].outcome.value.k = "dict"
        /\ \A w \in TradingViewWorlds :
              w.kind # "analysis" => IsErrorDict(get_signals(symbol[r], w))
        /\ \A w \in AlphaVantageWorlds :
              (w.kind # "series" \/ Len(symbol[r]) # 6) =>
                  IsErrorDict(get_intraday_data(symbol[r], w))
        /\ \A w \in TwelveDataWorlds :
              w.kind # "series" => IsErrorDict(get_time_series(symbol[r], w))
        /\ format_symbol(symbol[r]) \notin AVAILABLE_PAIRS =>
              IsErrorDict(get_intraday_signals(symbol[r]))
        /\ HasConsensus(r) =>
              /\ consensus[r] = calculate_consensus(SelectSeq(sources[r], NoErrorMarker))
              /\ Cons(r).total_sources <= Cardinality(Answered(sources[r]))

\* a finished request for a symbol of seven characters: the tradingview
\* request failed, alphavantage refused the symbol, twelvedata could not
\* read the numbers, truefx does not know the pair; no signal is left
C25_Witness ==
    \E r \in Requests :
        /\ HasEnvelope(r)
        /\ symbol[r] = "EURUSDT"
        /\ sources[r][1].data = AdapterError("TradingView TA", "timed out")
        /\ sources[r][2].data =
              AdapterError("Alpha Vantage", "Invalid symbol format. Expected format: EURUSD")
        /\ sources[r][3].data =
              AdapterError("Twelve Data", "could not convert string to float")
        /\ sources[r][4].data = AdapterError("TrueFX", "Pair EURUSDT not available")
        /\ Cons(r).total_sources = 0
        /\ Cons(r).agreement_level = "NO_DATA"

\* the first entry of the tick list of the truefx entry
FirstTick(item) == item.data.v["signals"].v["signals"].v[1]

\* the providers other than truefx that vote rec
OthersVoting(items, rec) ==
    {i \in Used(items) : items[i].name # "truefx" /\ rec \in VoteOf(items[i])}

\* C29: for a symbol whose formatted pair is in AVAILABLE_PAIRS the truefx
\* entry is a non-error result whose first signal is NEUTRAL with
\* confidence MEDIUM, so truefx contributes one NEUTRAL vote of weight 2:
\* neutral_votes >= 1, and the overall recommendation is BUY (SELL) only if
\* at least two of the other three sources vote BUY (SELL).
C29_TrueFXNeutralVote ==
    \A r \in Requests :
        format_symbol(symbol[r]) \in AVAILABLE_PAIRS =>
            /\ Len(sources[r]) = 4 =>
                  /\ sources[r][4].name = "truefx"
                  /\ calls[r][4].outcome.status = "returned"
                  /\ ~HasErrorMarker(sources[r][4])
                  /\ FirstTick(sources[r][4]) = SignalsWithConfidence("NEUTRAL", "MEDIUM")
                  /\ VoteOf(sources[r][4]) = {"NEUTRAL"}
                  /\ WeightOf(sources[r][4]) = 2
            /\ HasConsensus(r) =>
                  /\ Cons(r).neutral_votes >= 1
                  /\ Cons(r).neutral_votes =
                        1 + Cardinality(OthersVoting(sources[r], "NEUTRAL"))
                  /\ Cons(r).overall_recommendation = "BUY" =>
                        Cardinality(OthersVoting(sources[r], "BUY")) >= 2
                  /\ Cons(r).overall_recommendation = "SELL" =>
                        Cardinality(OthersVoting(sources[r], "SELL")) >= 2

\* a response for 'eurusd' in which a single BUY vote, next to a failed
\* request and a STRONG_BUY, is tied by the NEUTRAL vote of truefx
C29_Witness ==
    \E r \in Requests :
        /\ HasEnvelope(r)
        /\ symbol[r] = "eurusd"
        /\ Holder(sources[r][1]) # {}
        /\ VoteOf(sources[r][1]) = {"STRONG_BUY"}
        /\ VoteOf(sources[r][2]) = {"BUY"}
        /\ HasErrorMarker(sources[r][3])
        /\ Envelope(r).consensus.buy_votes = 1
        /\ Envelope(r).consensus.neutral_votes = 1
        /\ Envelope(r).consensus.overall_recommendation = "NEUTRAL"

(***************************************************************************)
(* SpecSeries: get with the two price-series adapters answering with the   *)
(* same price history, of every length up to MaxSeriesLen                  *)
(***************************************************************************)
MaxSeriesLen == 50

\* closes: a missing price, a price, and prices 0.1% and 0.2% above it
SeriesPrices == {0, 1000, 1001, 1002}

\* the data points of a payload
PointsOf(payload) ==
    LET q == payload.v["data_points"].v IN
    [i \in 1..Len(q) |-> [close |-> q[i].v["close"].v,
                          high |-> q[i].v["high"].v,
                          low |-> q[i].v["low"].v]]

\* the TradingView request fails
CallTradingViewDown(r) ==
    TryFetch(r, "tradingview", "alphavantage",
             get_signals(symbol[r], [kind |-> "raises", message |-> "timed out"]))

\* Alpha Vantage answers with a time series
CallAlphaVantageSeries(r) ==
    \E n \in 0..MaxSeriesLen, latest \in SeriesPrices, previous \in SeriesPrices,
       rest \in SeriesPrices :
        TryFetch(r, "alphavantage", "twelvedata",
                 get_intraday_data(symbol[r],
                     [kind |-> "series",
                      data_points |-> SeriesOf(latest, previous, rest, n)]))

\* Twelve Data answers with the price history Alpha Vantage reported
CallTwelveDataSeries(r) ==
    /\ pc[r] = "twelvedata"
    /\ TryFetch(r, "twelvedata", "truefx",
                get_time_series(symbol[r],
                    [kind |-> "series",
                     data_points |-> PointsOf(sources[r][2].data)]))

InitSeries ==
    /\ symbol = [r \in {1} |-> "EURUSD"]
    /\ interval = [r \in {1} |-> "15min"]
    /\ sources = [r \in {1} |-> <<>>]
    /\ Start({1}, "tradingview")

NextSeries ==
    \/ \E r \in Requests : CallTradingViewDown(r)
    \/ \E r \in Requests : CallAlphaVantageSeries(r)
    \/ \E r \in Requests : CallTwelveDataSeries(r)
    \/ \E r \in Requests : CallTrueFX(r)
    \/ \E r \in Requests : CallCalculateConsensus(r)
    \/ \E r \in Requests : CallGenerateSummary(r)

SpecSeries == InitSeries /\ [][NextSeries]_vars

\* positions of the price-series entries recorded so far
SeriesPositions(r) == {i \in {2, 3} : i <= Len(sources[r])}

\* the signals dictionary of a price-series entry
SignalsOf(item) == item.data.v["signals"].v

\* the entry with the confidence 'LOW' written out where there is none
EntryWithLow(item) ==
    IF item.name \in {"alphavantage", "twelvedata"} /\ "confidence" \notin DOMAIN SignalsOf(item)
    THEN [item EXCEPT !.data =
             PyDict([item.data.v EXCEPT !["signals"] =
                        SignalsWithConfidence(SignalsOf(item)["recommendation"].v, "LOW")])]
    ELSE item

WithLow(items) == [i \in 1..Len(items) |-> EntryWithLow(items[i])]

\* C30: for both price-series adapters, with at least 2 data points the
\* signal has confidence LOW if and only if its recommendation is NEUTRAL,
\* and BUY and SELL carry MEDIUM or HIGH; with fewer than 2 data points the
\* signal is NEUTRAL without a confidence field, which the consensus counts
\* as a NEUTRAL vote with confidence LOW.
C30_LowIffNeutral ==
    \A r \in Requests :
        /\ \A i \in SeriesPositions(r) :
              LET g == SignalsOf(sources[r][i])
                  n == Len(sources[r][i].data.v["data_points"].v)
              IN  /\ n >= 2 =>
                        /\ g["recommendation"] \in {PyStr("BUY"), PyStr("SELL"), PyStr("NEUTRAL")}
                        /\ "confidence" \in DOMAIN g
                        /\ g["confidence"] \in {LOW, MEDIUM, HIGH}
                        /\ g["confidence"] = LOW <=> g["recommendation"] = PyStr("NEUTRAL")
                        /\ g["recommendation"] \in {PyStr("BUY"), PyStr("SELL")} =>
                               g["confidence"] \in {MEDIUM, HIGH}
                  /\ n < 2 =>
                        /\ g["recommendation"] = PyStr("NEUTRAL")
                        /\ "confidence" \notin DOMAIN g
                        /\ VoteOf(sources[r][i]) = {"NEUTRAL"}
                        /\ WeightOf(sources[r][i]) = 1
        /\ HasConsensus(r) =>
              /\ consensus[r] = calculate_consensus(WithLow(sources[r]))
              /\ Cons(r).total_sources = 3

\* one data point: both adapters answer NEUTRAL without confidence and the
\* consensus counts two NEUTRAL votes of weight 1 next to that of truefx
C30_Witness ==
    \E r \in Requests :
        /\ HasConsensus(r)
        /\ \A i \in {2, 3} :
              /\ Len(sources[r][i].data.v["data_points"].v) = 1
              /\ "confidence" \notin DOMAIN SignalsOf(sources[r][i])
        /\ Cons(r).neutral_votes = 3
        /\ Cons(r).average_confidence = "LOW"
        /\ WeightSum(sources[r]) = 4

====
